---- MODULE Spec2Model ----
(***************************************************************************)
(* COVID-19 dashboard: the schema-normalisation, missing-value, reshape    *)
(* and join pipeline of main.py and the questions/ sections.               *)
(*                                                                         *)
(* A table (a pandas DataFrame) is a record [cols, rows]: cols is the      *)
(* sequence of column labels, rows the sequence of rows, each row a        *)
(* sequence of cells aligned with cols.  A cell is <<>> when it is missing *)
(* (NaN) and <<v>> when it holds v; a parsed date cell is <<y, m, d>>.     *)
(***************************************************************************)
EXTENDS Integers, Sequences, FiniteSets, TLC

VARIABLES
    pc,          \* position of the script run: start, loaded, ready, stopped, done, error
    raw,         \* the three tables as parsed from the CSV files
    df,          \* <<confirmed_df, deaths_df, recovered_df>> returned by load_and_prepare_datasets
    col_map,     \* the column map computed for each of the three tables
    selected,    \* selected_question of the run
    long,        \* <<confirmed_long, deaths_long, recovered_long>> of the last Q7/Q8 run
    merged_df,   \* merged_df of the last Q7/Q8 run
    cleaned,     \* cleaned_datasets of the last Q3/Q4 run
    daily_new,   \* the daily increments computed by the last Q5/Q6 run, one entry per country
    country_rates,\* the monthly death rates of the last Q8 run, one entry per country
    st_error,    \* the message of the st.error call of the required-column check, if any
    cache,       \* the entry of st.cache_data for load_and_prepare_datasets: None, or <<result>>
    reads,       \* the number of pd.read_csv calls made so far for each of the three files
    analysis_results,\* analysis_results of the last run of the assistant page that analysed the tables
    ai_response, \* what get_enhanced_insights_response returned in the last run of the assistant page
    session_state,\* st.session_state of the browser session: last_response and chat_history
    sessions,    \* for each browser session, the position of its script run in the cached call and the tables it got
    lock,        \* the session that holds the compute lock of the cache entry, if any
    argument,    \* the tables handed to clean_province_column by the load that gave the run its tables, as they were after the call
    monthly_country,\* Q7.2: the monthly figures per country, or None
    calls,       \* the calls of get_enhanced_insights_response of the run: the question passed and the response returned
    st_warning,  \* the message of the st.warning call of the assistant page, if any
    widgets      \* the widgets of the assistant page in the run: the text of the text area and the button clicked

vars == <<pc, raw, df, col_map, selected, long, merged_df, cleaned, daily_new, country_rates, st_error, cache, reads, analysis_results, ai_response, session_state, sessions, lock, argument, monthly_country, calls, st_warning, widgets>>

----------------------------------------------------------------------------
\* Bounds of the enumerated inputs.
MaxCols == 2     \* columns of a table with arbitrary headers
MaxRows == 2     \* rows of a wide table in the join inputs
MaxFillRows == 2 \* rows of a wide table in the missing-value inputs
MaxSessions == 2 \* browser sessions that run the script concurrently

----------------------------------------------------------------------------
\* Cells.
NA == <<>>
Some(v) == <<v>>

\* Python's None
None == <<>>

\* Series.fillna(value): a missing cell becomes value.
fillna(cell, value) == IF cell = NA THEN Some(value) ELSE cell

\* Series.replace(to_replace, value): a cell equal to to_replace becomes value.
replace(cell, to_replace, value) == IF cell = Some(to_replace) THEN Some(value) ELSE cell

----------------------------------------------------------------------------
\* Strings.  A header is a TLA+ string; Chars gives its characters, on which
\* lower(), replace() and the substring tests of the code are computed.
Chars(h) ==
    CASE h = "Province_State" -> <<"P","r","o","v","i","n","c","e","_","S","t","a","t","e">>
      [] h = "Country_Region" -> <<"C","o","u","n","t","r","y","_","R","e","g","i","o","n">>
      [] h = "Lat" -> <<"L","a","t">>
      [] h = "Long" -> <<"L","o","n","g">>
      [] h = "Long_" -> <<"L","o","n","g","_">>
      [] h = "Province/State" -> <<"P","r","o","v","i","n","c","e","/","S","t","a","t","e">>
      [] h = "Country/Region" -> <<"C","o","u","n","t","r","y","/","R","e","g","i","o","n">>
      [] h = "Country State" -> <<"C","o","u","n","t","r","y"," ","S","t","a","t","e">>
      [] h = "LATITUDE" -> <<"L","A","T","I","T","U","D","E">>
      [] h = "longitude" -> <<"l","o","n","g","i","t","u","d","e">>
      [] h = "Plate" -> <<"P","l","a","t","e">>
      [] h = "Notes" -> <<"N","o","t","e","s">>
      [] h = "NaN" -> <<"N","a","N">>
      [] h = "1/22/20" -> <<"1","/","2","2","/","2","0">>
      [] h = "1/23/20" -> <<"1","/","2","3","/","2","0">>
      [] h = "1/24/20" -> <<"1","/","2","4","/","2","0">>
      [] h = "1/25/20" -> <<"1","/","2","5","/","2","0">>
      [] h = "2/1/20" -> <<"2","/","1","/","2","0">>
      [] h = "1/22/21" -> <<"1","/","2","2","/","2","1">>
      [] h = "1/1/20" -> <<"1","/","1","/","2","0">>
      [] h = "1/2/20" -> <<"1","/","2","/","2","0">>
      [] h = "01/22/20" -> <<"0","1","/","2","2","/","2","0">>
      [] h = "Canada" -> <<"C","a","n","a","d","a">>
      [] h = "France" -> <<"F","r","a","n","c","e">>
      [] h = "Germany" -> <<"G","e","r","m","a","n","y">>
      [] h = "Italy" -> <<"I","t","a","l","y">>
      [] h = "Testland" -> <<"T","e","s","t","l","a","n","d">>
      [] h = "" -> <<>>
      [] h = " " -> <<" ">>

UpperCase == <<"A","B","C","D","E","F","G","H","I","J","K","L","M",
               "N","O","P","Q","R","S","T","U","V","W","X","Y","Z">>
LowerCase == <<"a","b","c","d","e","f","g","h","i","j","k","l","m",
               "n","o","p","q","r","s","t","u","v","w","x","y","z">>

\* str.lower()
lower(s) ==
    [i \in 1..Len(s) |->
        IF \E k \in 1..26 : UpperCase[k] = s[i]
        THEN LowerCase[CHOOSE k \in 1..26 : UpperCase[k] = s[i]]
        ELSE s[i]]

\* str.replace(ch, "")
strip(s, ch) == SelectSeq(s, LAMBDA x : x # ch)

\* sub in s
contains(s, sub) ==
    \E i \in 0..(Len(s) - Len(sub)) : SubSeq(s, i + 1, i + Len(sub)) = sub

province == <<"p","r","o","v","i","n","c","e">>
state == <<"s","t","a","t","e">>
country == <<"c","o","u","n","t","r","y">>
region == <<"r","e","g","i","o","n">>
lat == <<"l","a","t">>
latitude == <<"l","a","t","i","t","u","d","e">>
long_ == <<"l","o","n","g">>
longitude == <<"l","o","n","g","i","t","u","d","e">>

----------------------------------------------------------------------------
\* ColumnNormalizer: get_standard_column_map, standardize_dataframe_columns,
\* get_date_columns.

\* col_lower = col.lower().replace("_", "").replace(" ", "")
col_lower(col) == strip(strip(lower(Chars(col)), "_"), " ")

Unmapped == "<unmapped>"

\* Variant of canonical_of that tests the country rule before the province rule.
canonical_of_country_first(col) ==
    LET cl == col_lower(col) IN
    IF contains(cl, country) \/ contains(cl, region) THEN "Country/Region"
    ELSE IF contains(cl, province) \/ contains(cl, state) THEN "Province/State"
    ELSE IF cl \in {lat, latitude} THEN "Lat"
    ELSE IF cl \in {long_, longitude} THEN "Long"
    ELSE "<unmapped>"

\* Variant of canonical_of with the targets of the first two rules exchanged.
canonical_of_swapped(col) ==
    LET cl == col_lower(col) IN
    IF contains(cl, province) \/ contains(cl, state) THEN "Country/Region"
    ELSE IF contains(cl, country) \/ contains(cl, region) THEN "Province/State"
    ELSE IF cl \in {lat, latitude} THEN "Lat"
    ELSE IF cl \in {long_, longitude} THEN "Long"
    ELSE "<unmapped>"

\* The if / elif chain of get_standard_column_map for one header: the
\* canonical name the header is mapped to, or Unmapped when no branch is taken.
canonical_of(col) ==
    LET cl == col_lower(col) IN
    IF contains(cl, province) \/ contains(cl, state) THEN "Province/State"
    ELSE IF contains(cl, country) \/ contains(cl, region) THEN "Country/Region"
    ELSE IF cl \in {lat, latitude} THEN "Lat"
    ELSE IF cl \in {long_, longitude} THEN "Long"
    ELSE Unmapped

\* get_standard_column_map(df): the dict built by the loop over df.columns.
get_standard_column_map(d) ==
    [col \in {d.cols[i] : i \in {j \in DOMAIN d.cols : canonical_of(d.cols[j]) # Unmapped}}
        |-> canonical_of(col)]

\* df.rename(columns=m): a label that is a key of m is replaced, any other kept.
rename(d, m) ==
    [d EXCEPT !.cols = [i \in DOMAIN d.cols |->
        IF d.cols[i] \in DOMAIN m THEN m[d.cols[i]] ELSE d.cols[i]]]

standardize_dataframe_columns(d) == rename(d, get_standard_column_map(d))

meta_cols == {"Province/State", "Country/Region", "Lat", "Long"}

\* Variant of get_date_columns whose metadata set lacks "Long".
get_date_columns_without_long(d) ==
    SelectSeq(d.cols, LAMBDA c : c \notin {"Province/State", "Country/Region", "Lat"})

\* get_date_columns(df): the labels not in meta_cols, in header order.
get_date_columns(d) == SelectSeq(d.cols, LAMBDA c : c \notin meta_cols)

----------------------------------------------------------------------------
\* Table helpers.

Max(S) == CHOOSE x \in S : \A y \in S : y <= x
Min(S) == CHOOSE x \in S : \A y \in S : x <= y

\* Positions of the columns labelled name.
positions(d, name) == {i \in DOMAIN d.cols : d.cols[i] = name}

\* df[name] for a label that occurs once: the position of that column.
loc(d, name) == CHOOSE i \in DOMAIN d.cols : d.cols[i] = name

\* df[name]: the cells of the column labelled name, one per row.
column(d, name) == [r \in DOMAIN d.rows |-> d.rows[r][loc(d, name)]]

\* df[name] = series: the cells of the columns labelled name are replaced.
assign_column(d, name, series) ==
    [d EXCEPT !.rows = [r \in DOMAIN d.rows |->
        [i \in DOMAIN d.cols |->
            IF d.cols[i] = name THEN series[r] ELSE d.rows[r][i]]]]

\* Series.fillna(value) and Series.replace(to_replace, value), cell by cell.
series_fillna(series, value) == [r \in DOMAIN series |-> fillna(series[r], value)]
series_replace(series, to_replace, value) ==
    [r \in DOMAIN series |-> replace(series[r], to_replace, value)]

\* Positions of the date columns, in header order.
date_positions(d) ==
    SelectSeq([i \in 1..Len(d.cols) |-> i], LAMBDA i : d.cols[i] \notin meta_cols)

----------------------------------------------------------------------------
\* MissingValueFiller.

\* Variant of clean_province_column that leaves blank values in place.
clean_province_column_fillna_only(d) ==
    IF positions(d, "Province/State") # {}
    THEN assign_column(d, "Province/State",
            series_fillna(column(d, "Province/State"), "All Provinces"))
    ELSE d

\* Variant of clean_province_column that fills the missing cells of the whole
\* frame (df.fillna) instead of those of the Province/State column.
clean_province_column_whole_frame(d) ==
    IF positions(d, "Province/State") # {}
    THEN LET d1 == [d EXCEPT !.rows = [r \in DOMAIN d.rows |->
                      [i \in DOMAIN d.cols |-> fillna(d.rows[r][i], "All Provinces")]]]
         IN  assign_column(d1, "Province/State",
                series_replace(column(d1, "Province/State"), "", "All Provinces"))
    ELSE d

\* clean_province_column(df): fillna("All Provinces") assigned to the column,
\* then replace("", "All Provinces", inplace=True) on that column (pandas
\* before 3.0, where the column taken from the frame shares its data).
clean_province_column(d) ==
    IF positions(d, "Province/State") # {}
    THEN assign_column(d, "Province/State",
            series_replace(series_fillna(column(d, "Province/State"), "All Provinces"),
                           "", "All Provinces"))
    ELSE d

\* The table that the parameter df of clean_province_column refers to once
\* the call has returned: the function assigns the filled column to df
\* itself, replaces in place within it, and returns df, so the caller's
\* table holds what the result holds.
clean_province_column_argument(d) == clean_province_column(d)

\* DataFrame.fillna(method='ffill', axis=1) on one row of date cells: a
\* missing cell takes the last present cell to its left, if there is one.
ffill(s) ==
    [j \in 1..Len(s) |->
        IF \E k \in 1..j : s[k] # NA
        THEN s[Max({k \in 1..j : s[k] # NA})]
        ELSE NA]

\* Variant of q3_clean that forward fills down the rows (axis=0) instead of
\* along the date columns of a row.
q3_clean_axis0(d) ==
    LET down(r, i) ==
            IF \E k \in 1..r : d.rows[k][i] # NA
            THEN d.rows[Max({k \in 1..r : d.rows[k][i] # NA})][i]
            ELSE NA
        d1 == [d EXCEPT !.rows = [r \in DOMAIN d.rows |->
                 [i \in DOMAIN d.cols |->
                    IF d.cols[i] \notin meta_cols
                    THEN fillna(down(r, i), 0)
                    ELSE d.rows[r][i]]]]
    IN  IF positions(d1, "Province/State") # {}
        THEN assign_column(d1, "Province/State",
                series_fillna(column(d1, "Province/State"), "Unknown"))
        ELSE d1

\* The body of the cleaning loop of show_handling_missing_data_section for
\* one dataset: forward fill along the date columns, 0 for what is still
\* missing, 'Unknown' for a missing Province/State.
q3_clean(d) ==
    LET dp == date_positions(d)
        filled(row) == ffill([j \in 1..Len(dp) |-> row[dp[j]]])
        pos(i) == CHOOSE j \in 1..Len(dp) : dp[j] = i
        d1 == [d EXCEPT !.rows = [r \in DOMAIN d.rows |->
                 [i \in DOMAIN d.cols |->
                    IF d.cols[i] \notin meta_cols
                    THEN fillna(filled(d.rows[r])[pos(i)], 0)
                    ELSE d.rows[r][i]]]]
    IN  IF positions(d1, "Province/State") # {}
        THEN assign_column(d1, "Province/State",
                series_fillna(column(d1, "Province/State"), "Unknown"))
        ELSE d1

\* The body of the cleaning loop of show_data_cleaning_section for one dataset.
q4_clean(d) ==
    LET d1 == assign_column(d, "Province/State",
                  series_fillna(column(d, "Province/State"), "All Provinces"))
    IN  assign_column(d1, "Province/State",
            series_replace(column(d1, "Province/State"), "", "All Provinces"))

----------------------------------------------------------------------------
\* Reshaper: DataFrame.melt and pd.to_datetime.

Digits == <<"0","1","2","3","4","5","6","7","8","9">>
is_digit(c) == \E k \in 1..10 : Digits[k] = c
digit(c) == (CHOOSE k \in 1..10 : Digits[k] = c) - 1

NaT == <<>>

days_in_month(y, m) ==
    IF m = 2 THEN (IF y % 4 = 0 /\ (y % 100 # 0 \/ y % 400 = 0) THEN 29 ELSE 28)
    ELSE IF m \in {4, 6, 9, 11} THEN 30 ELSE 31

\* A field of one or two digits as a number, or -1.
number(f) ==
    IF Len(f) \in {1, 2} /\ \A i \in 1..Len(f) : is_digit(f[i])
    THEN (IF Len(f) = 1 THEN digit(f[1]) ELSE 10 * digit(f[1]) + digit(f[2]))
    ELSE 0 - 1

\* pd.to_datetime of one header text in the month/day/two-digit-year form of
\* the source files ("1/22/20"): the date <<year, month, day>>, or NaT when
\* the text is not such a date (to_datetime then raises).
parse_date(s) ==
    LET slashes == {i \in 1..Len(s) : s[i] = "/"} IN
    IF Cardinality(slashes) # 2 THEN NaT
    ELSE LET p1 == Min(slashes)
             p2 == Max(slashes)
             m == number(SubSeq(s, 1, p1 - 1))
             dd == number(SubSeq(s, p1 + 1, p2 - 1))
             yf == SubSeq(s, p2 + 1, Len(s))
             yy == IF Len(yf) = 2 THEN number(yf) ELSE 0 - 1
             y == IF yy < 69 THEN 2000 + yy ELSE 1900 + yy
         IN  IF m \in 1..12 /\ yy >= 0 /\ dd >= 1 /\ dd <= days_in_month(y, m)
             THEN <<y, m, dd>>
             ELSE NaT

id_vars == <<"Province/State", "Country/Region", "Lat", "Long">>

value_names == <<"Confirmed", "Deaths", "Recovered">>

\* Variant of melt that leaves out the first date column.
melt_without_first(d, value_name) ==
    LET dp == IF date_positions(d) = <<>> THEN <<>> ELSE Tail(date_positions(d))
        N == Len(d.rows)
        K == Len(dp)
    IN  [cols |-> id_vars \o <<"Date", value_name>>,
         rows |-> [n \in 1..(N * K) |->
                    LET k == ((n - 1) \div N) + 1
                        i == ((n - 1) % N) + 1
                    IN  [c \in 1..4 |-> d.rows[i][loc(d, id_vars[c])]]
                        \o <<d.cols[dp[k]], d.rows[i][dp[k]]>>]]

\* Variant of melt that unpivots row by row.
melt_row_major(d, value_name) ==
    LET dp == date_positions(d)
        N == Len(d.rows)
        K == Len(dp)
    IN  [cols |-> id_vars \o <<"Date", value_name>>,
         rows |-> [n \in 1..(N * K) |->
                    LET i == ((n - 1) \div K) + 1
                        k == ((n - 1) % K) + 1
                    IN  [c \in 1..4 |-> d.rows[i][loc(d, id_vars[c])]]
                        \o <<d.cols[dp[k]], d.rows[i][dp[k]]>>]]

\* Variant of melt that reads the values in row-major order while the
\* identity cells and the headers are laid out column by column.
melt_misaligned(d, value_name) ==
    LET dp == date_positions(d)
        N == Len(d.rows)
        K == Len(dp)
    IN  [cols |-> id_vars \o <<"Date", value_name>>,
         rows |-> [n \in 1..(N * K) |->
                    LET k == ((n - 1) \div N) + 1
                        i == ((n - 1) % N) + 1
                        vi == ((n - 1) \div K) + 1
                        vk == ((n - 1) % K) + 1
                    IN  [c \in 1..4 |-> d.rows[i][loc(d, id_vars[c])]]
                        \o <<d.cols[dp[k]], d.rows[vi][dp[vk]]>>]]

\* df.melt(id_vars, value_vars=date_columns, var_name="Date", value_name):
\* the frame is unpivoted column by column (the identity cells are tiled once
\* per value column, the values are read in column-major order).
melt(d, value_name) ==
    LET dp == date_positions(d)
        N == Len(d.rows)
        K == Len(dp)
    IN  [cols |-> id_vars \o <<"Date", value_name>>,
         rows |-> [n \in 1..(N * K) |->
                    LET k == ((n - 1) \div N) + 1
                        i == ((n - 1) % N) + 1
                    IN  [c \in 1..4 |-> d.rows[i][loc(d, id_vars[c])]]
                        \o <<d.cols[dp[k]], d.rows[i][dp[k]]>>]]

\* The texts that pd.to_datetime reads as a missing date.
nat_strings == {<<>>, <<"N","a","T">>, <<"n","a","t">>, <<"N","A","T">>,
                <<"n","a","n">>, <<"N","a","N">>, <<"N","A","N">>}

\* long_df["Date"] = pd.to_datetime(long_df["Date"]) raises when some value
\* of the Date column is neither a date nor one of the texts of a missing
\* date; a Date column without values raises nothing.
to_datetime_raises(m) ==
    \E n \in DOMAIN m.rows :
        /\ parse_date(Chars(m.rows[n][5])) = NaT
        /\ Chars(m.rows[n][5]) \notin nat_strings

\* transform_to_long_format(df, value_column): <<long_df>>, or <<>> when
\* pd.to_datetime raised.
transform_to_long_format(d, value_column) ==
    LET m == melt(d, value_column) IN
    IF to_datetime_raises(m) THEN <<>>
    ELSE <<[m EXCEPT !.rows = [n \in DOMAIN m.rows |->
                [m.rows[n] EXCEPT ![5] = parse_date(Chars(m.rows[n][5]))]]]>>

----------------------------------------------------------------------------
\* Joiner: pd.merge(left, right, on=..., how='inner').

merge_on == <<"Province/State", "Country/Region", "Lat", "Long", "Date">>

\* Variant of key_of that leaves the date out of the key.
key_of_without_date(t, n) == [c \in 1..4 |-> t.rows[n][loc(t, merge_on[c])]]

\* The join key of row n of table t.
key_of(t, n) == [c \in 1..5 |-> t.rows[n][loc(t, merge_on[c])]]

\* The positions of the columns of t that are not join keys, in order.
other_positions(t) ==
    SelectSeq([i \in 1..Len(t.cols) |-> i],
              LAMBDA i : \A c \in 1..5 : t.cols[i] # merge_on[c])

RECURSIVE concat(_)
concat(ss) == IF ss = <<>> THEN <<>> ELSE Head(ss) \o concat(Tail(ss))

\* Variant of matches that keeps only the first matching row of right.
matches_first(left, right, n) ==
    LET op == other_positions(right)
        hit == SelectSeq([j \in 1..Len(right.rows) |-> j],
                         LAMBDA j : key_of(right, j) = key_of(left, n))
    IN  [h \in 1..(IF hit = <<>> THEN 0 ELSE 1) |->
            left.rows[n] \o [c \in 1..Len(op) |-> right.rows[hit[h]][op[c]]]]

\* Variant of matches that keeps a left row without a match (how='left').
matches_left(left, right, n) ==
    LET op == other_positions(right)
        hit == SelectSeq([j \in 1..Len(right.rows) |-> j],
                         LAMBDA j : key_of(right, j) = key_of(left, n))
    IN  IF hit = <<>>
        THEN << left.rows[n] \o [c \in 1..Len(op) |-> NA] >>
        ELSE [h \in 1..Len(hit) |->
                left.rows[n] \o [c \in 1..Len(op) |-> right.rows[hit[h]][op[c]]]]

\* The rows of right that match row n of left, each appended to it.
matches(left, right, n) ==
    LET op == other_positions(right)
        hit == SelectSeq([j \in 1..Len(right.rows) |-> j],
                         LAMBDA j : key_of(right, j) = key_of(left, n))
    IN  [h \in 1..Len(hit) |->
            left.rows[n] \o [c \in 1..Len(op) |-> right.rows[hit[h]][op[c]]]]

\* pd.merge(left, right, on=merge_on, how='inner'): every pair of a left row
\* and a right row with equal keys, in the order of the left rows; missing
\* key cells match each other.
merge(left, right) ==
    LET op == other_positions(right) IN
    [cols |-> left.cols \o [c \in 1..Len(op) |-> right.cols[op[c]]],
     rows |-> concat([n \in 1..Len(left.rows) |-> matches(left, right, n)])]

\* merged_df['Month_Year'] = merged_df['Date'].dt.to_period('M')
with_month_year(t) ==
    [cols |-> Append(t.cols, "Month_Year"),
     rows |-> [n \in DOMAIN t.rows |->
                LET dt == t.rows[n][loc(t, "Date")] IN
                Append(t.rows[n], <<dt[1], dt[2]>>)]]

----------------------------------------------------------------------------
\* Aggregator: sums per country and consecutive differences.

\* A cell as a term of Series.sum(), which skips the missing cells.
skipna(cell) == IF cell = NA THEN 0 ELSE cell[1]

RECURSIVE sum(_)
sum(s) == IF s = <<>> THEN 0 ELSE skipna(Head(s)) + sum(Tail(s))

\* df[df[name] == value]: the rows whose cell in the column name holds value
\* (a missing cell equals nothing).
rows_where(d, name, value) ==
    SelectSeq(d.rows, LAMBDA row : value # NA /\ row[loc(d, name)] = value)

\* Variant of diff that replaces a negative difference by 0.
diff_clamped(v) ==
    [i \in 1..Len(v) |->
        IF i = 1 THEN NA
        ELSE IF v[i] < v[i - 1] THEN Some(0) ELSE Some(v[i] - v[i - 1])]

\* Series.diff(): the first element is missing, every other one is the
\* difference to its predecessor.
diff(v) == [i \in 1..Len(v) |-> IF i = 1 THEN NA ELSE Some(v[i] - v[i - 1])]

\* Series.unique(): the distinct elements in the order of first appearance.
unique(s) ==
    LET first == SelectSeq([i \in 1..Len(s) |-> i],
                           LAMBDA i : \A k \in 1..(i - 1) : s[k] # s[i])
    IN  [k \in 1..Len(first) |-> s[first[k]]]

\* The order of two parsed dates.
date_lt(a, b) ==
    \/ a[1] < b[1]
    \/ a[1] = b[1] /\ a[2] < b[2]
    \/ a[1] = b[1] /\ a[2] = b[2] /\ a[3] < b[3]

\* sort_index() of a series indexed by the dates of S: the dates in
\* calendar order.
sort_index(S) ==
    CHOOSE q \in [1..Cardinality(S) -> S] :
        \A i, j \in 1..Cardinality(S) : i < j => date_lt(q[i], q[j])

countries_to_analyze == <<"Germany", "France", "Italy">>

\* The body of the loop of Q5.1 for one country of confirmed_df: the sum of
\* each date column over the country's rows, in header order, then
\* diff().fillna(0).
q5_daily_new(d, name) ==
    LET country_data == rows_where(d, "Country/Region", Some(name))
        dp == date_positions(d)
        country_totals ==
            [j \in 1..Len(dp) |->
                sum([r \in 1..Len(country_data) |-> country_data[r][dp[j]]])]
    IN  [country |-> Some(name),
         index |-> [j \in 1..Len(dp) |-> d.cols[dp[j]]],
         values |-> series_fillna(diff(country_totals), 0)]

\* The countries of countries_to_analyze that have rows in confirmed_df.
q5_found(d) ==
    SelectSeq(countries_to_analyze,
              LAMBDA c : rows_where(d, "Country/Region", Some(c)) # <<>>)

\* daily_new.idxmax() raises ValueError for a series without elements.
q5_peak_raises(d) == q5_found(d) # <<>> /\ date_positions(d) = <<>>

\* The daily_new series the loop of Q5.1 computes: one per country found,
\* up to the one at which idxmax raises.
q5_peak(d) ==
    LET found == q5_found(d)
        n == IF q5_peak_raises(d) THEN 1 ELSE Len(found)
    IN  [k \in 1..n |-> q5_daily_new(d, found[k])]

target_date == "12/31/20"

\* Q5.2 reads recovered_df[target_date] when confirmed_df has that column:
\* KeyError when recovered_df has not.
q5_2_raises(d) ==
    /\ positions(d[1], target_date) # {}
    /\ positions(d[3], target_date) = {}

\* Q5.3, for the rows of Canada in confirmed_df and the row of deaths_df with
\* the same province: KeyError when deaths_df lacks the latest date column,
\* ValueError of int() for a missing count, KeyError of sort_values when no
\* province was matched.
q5_3_raises(d) ==
    LET dp == date_positions(d[1])
        latest_date == d[1].cols[dp[Len(dp)]]
        canada_confirmed == rows_where(d[1], "Country/Region", Some("Canada"))
        canada_deaths == rows_where(d[2], "Country/Region", Some("Canada"))
        death_row(province_row) ==
            rows_where([cols |-> d[2].cols, rows |-> canada_deaths], "Province/State",
                       province_row[loc(d[1], "Province/State")])
        matched == {r \in DOMAIN canada_confirmed : death_row(canada_confirmed[r]) # <<>>}
    IN  \/ matched = {}
        \/ positions(d[2], latest_date) = {}
        \/ \E r \in matched :
              \/ canada_confirmed[r][dp[Len(dp)]] = NA
              \/ death_row(canada_confirmed[r])[1][loc(d[2], latest_date)] = NA

\* show_independent_analysis_section raises.
q5_raises(d) ==
    \/ q5_peak_raises(d[1])
    \/ q5_found(d[1]) = <<>>
    \/ q5_2_raises(d)
    \/ q5_3_raises(d)

\* country_data.groupby("Date")["Deaths"].sum().sort_index() for the rows
\* of one country of deaths_long: the dates in calendar order and the sum
\* of Deaths of each.
q6_country_totals(L, name) ==
    LET country_data == rows_where(L, "Country/Region", name)
        dates == sort_index({country_data[r][5] : r \in DOMAIN country_data})
        on(j) == SelectSeq(country_data, LAMBDA row : row[5] = dates[j])
    IN  [index |-> dates,
         values |-> [j \in DOMAIN dates |-> sum([r \in DOMAIN on(j) |-> on(j)[r][6]])]]

\* The body of the loop of Q6.3 for one country: the totals per date, then
\* diff().fillna(0).
q6_daily_new_deaths(L, name) ==
    LET country_totals == q6_country_totals(L, name)
    IN  [country |-> name,
         index |-> country_totals.index,
         values |-> series_fillna(diff(country_totals.values), 0)]

\* The daily_new_deaths series of the loop of Q6.3, one per value of
\* deaths_long["Country/Region"].unique().
q6_daily(L) ==
    LET countries == unique(column(L, "Country/Region"))
    IN  [k \in 1..Len(countries) |-> q6_daily_new_deaths(L, countries[k])]

\* avg_daily_deaths > 0: the mean of a series is positive when its sum is
\* (the mean of a series without elements is NaN, which is not).
q6_included(e) == e.values # <<>> /\ sum(e.values) > 0

\* Q6.4, when deaths_long has rows of "US": IndexError of
\* us_daily_totals[us_daily_totals > 0].index[0] when no total is positive.
q6_4_raises(L) ==
    LET us_daily_totals == q6_country_totals(L, Some("US"))
    IN  /\ rows_where(L, "Country/Region", Some("US")) # <<>>
        /\ \A j \in DOMAIN us_daily_totals.values : us_daily_totals.values[j] <= 0

\* A float that is no NaN: <<n, d>> is n / d, and <<1, 0>> and <<-1, 0>> are
\* inf and -inf.  NaN is the missing cell.
Float(k) == <<k, 1>>
inf == <<1, 0>>

\* Variant of percent that divides the confirmed cases by the deaths.
percent_inverted(n, d) ==
    IF n = NA \/ d = NA THEN NA
    ELSE IF n[1] = 0 THEN NA
    ELSE Some(<<d[1] * 100, n[1]>>)

\* n / d * 100 on two cells, as numpy divides floats: NaN when one of them is
\* missing and for 0 / 0, inf or -inf for another quotient by 0.
percent(n, d) ==
    IF n = NA \/ d = NA THEN NA
    ELSE IF d[1] = 0
         THEN (IF n[1] = 0 THEN NA ELSE IF n[1] > 0 THEN Some(inf) ELSE Some(<<0 - 1, 0>>))
    ELSE Some(<<n[1] * 100, d[1]>>)

\* max of a column: the greatest present cell, missing when there is none.
max(cells) ==
    IF \A i \in DOMAIN cells : cells[i] = NA THEN NA
    ELSE Some(Max({cells[i][1] : i \in {j \in DOMAIN cells : cells[j] # NA}}))

\* The months <<year, month>> of S in calendar order (groupby sorts its keys).
sort_periods(S) ==
    CHOOSE q \in [1..Cardinality(S) -> S] :
        \A i, j \in 1..Cardinality(S) : i < j => date_lt(q[i] \o <<1>>, q[j] \o <<1>>)

\* merged_df[merged_df['Date'].dt.year == 2020]
merged_2020(t) ==
    [t EXCEPT !.rows = SelectSeq(t.rows, LAMBDA row : row[loc(t, "Date")][1] = 2020)]

\* The body of the loop of Q8.1 for one country: the maxima of Confirmed and
\* Deaths per month, and Death_Rate = (Deaths / Confirmed * 100).fillna(0).
q8_monthly_data(t, name) ==
    LET country_data == rows_where(t, "Country/Region", name)
        month(row) == <<row[loc(t, "Date")][1], row[loc(t, "Date")][2]>>
        months == sort_periods({month(country_data[r]) : r \in DOMAIN country_data})
        of(j) == SelectSeq(country_data, LAMBDA row : month(row) = months[j])
        Confirmed(j) == max([r \in DOMAIN of(j) |-> of(j)[r][loc(t, "Confirmed")]])
        Deaths(j) == max([r \in DOMAIN of(j) |-> of(j)[r][loc(t, "Deaths")]])
    IN  [j \in DOMAIN months |->
            [Date |-> months[j], Confirmed |-> Confirmed(j), Deaths |-> Deaths(j),
             Death_Rate |-> fillna(percent(Deaths(j), Confirmed(j)), Float(0))]]

\* The monthly_data of every country of merged_2020['Country/Region'].unique().
q8_country_rates(t) ==
    LET countries == unique(column(merged_2020(t), "Country/Region"))
    IN  [k \in DOMAIN countries |->
            [country |-> countries[k],
             monthly_data |-> q8_monthly_data(merged_2020(t), countries[k])]]

\* monthly_data['Confirmed'].max() >= 1000
q8_significant(e) ==
    LET m == max([j \in DOMAIN e.monthly_data |-> e.monthly_data[j].Confirmed])
    IN  m # NA /\ m[1] >= 1000

\* Q8.1 raises: int() of a missing maximum of Deaths (ValueError), and
\* sort_values on the frame of an empty country_death_rates (KeyError).
q8_1_raises(t) ==
    LET rates == q8_country_rates(t) IN
    \/ \E k \in DOMAIN rates :
          /\ q8_significant(rates[k])
          /\ max([j \in DOMAIN rates[k].monthly_data |-> rates[k].monthly_data[j].Deaths]) = NA
    \/ \A k \in DOMAIN rates : ~q8_significant(rates[k])

focus_countries == <<"US", "Italy", "Brazil">>

\* Q7.3 takes idxmax of Confirmed, Deaths and Recovered over the rows of
\* focus_countries in their latest month: ValueError when merged_df has no
\* row of these countries, KeyError of .loc when a column has no present
\* value there.
q7_3_raises(t) ==
    LET focus == SelectSeq(t.rows,
                    LAMBDA row : \E c \in DOMAIN focus_countries :
                                    row[loc(t, "Country/Region")] = Some(focus_countries[c]))
        month(row) == <<row[loc(t, "Date")][1], row[loc(t, "Date")][2]>>
        months == sort_periods({month(focus[r]) : r \in DOMAIN focus})
        latest_month == months[Len(months)]
        latest_data == SelectSeq(focus, LAMBDA row : month(row) = latest_month)
    IN  \/ focus = <<>>
        \/ \E v \in DOMAIN value_names :
              max([r \in DOMAIN latest_data |-> latest_data[r][loc(t, value_names[v])]]) = NA

\* Q8.3, when merged_df has rows of "US": idxmax raises ValueError when none
\* of them lies between March 2020 and May 2021.
q8_3_raises(t) ==
    LET us_data == rows_where(t, "Country/Region", Some("US"))
        in_period(dt) == ~date_lt(dt, <<2020, 3, 1>>) /\ ~date_lt(<<2021, 5, 31>>, dt)
    IN  /\ us_data # <<>>
        /\ \A r \in DOMAIN us_data : ~in_period(us_data[r][loc(t, "Date")])

----------------------------------------------------------------------------
\* The assistant page (questions/q9_ai_insights.py).

\* The code points of the characters that occur in the inputs, in
\* increasing order.
CodePoints ==
    <<" ", "/">> \o Digits \o <<"?">> \o UpperCase \o <<"_">> \o LowerCase

ord(c) == CHOOSE k \in DOMAIN CodePoints : CodePoints[k] = c

\* a < b on two str, character by character (the order in which groupby
\* sorts its keys).
RECURSIVE str_lt(_, _)
str_lt(a, b) ==
    IF b = <<>> THEN FALSE
    ELSE IF a = <<>> THEN TRUE
    ELSE IF a[1] = b[1] THEN str_lt(Tail(a), Tail(b))
    ELSE ord(a[1]) < ord(b[1])

\* df.groupby('Country/Region')[col].sum(): one entry per country, the keys
\* sorted, rows with a missing country dropped, missing cells skipped.
groupby_sum(d, col) ==
    LET at == loc(d, "Country/Region")
        keys == {d.rows[r][at][1] : r \in {q \in DOMAIN d.rows : d.rows[q][at] # NA}}
        index == CHOOSE q \in [1..Cardinality(keys) -> keys] :
                    \A i, j \in DOMAIN q : i < j => str_lt(Chars(q[i]), Chars(q[j]))
        cells(k) == LET rs == rows_where(d, "Country/Region", Some(k))
                    IN  [r \in DOMAIN rs |-> rs[r][loc(d, col)]]
    IN  [i \in 1..Cardinality(keys) |-> [key |-> index[i], value |-> sum(cells(index[i]))]]

\* merged_df.groupby(['Country/Region', 'Month_Year']).agg({'Confirmed':
\* 'max', 'Deaths': 'max', 'Recovered': 'max'}).reset_index(): one row per
\* country and month in the order of the keys, the rows with a missing
\* country dropped, each figure the greatest present cell among all the rows
\* of the country in the month.
q7_monthly_country(t) ==
    LET at == loc(t, "Country/Region")
        named == SelectSeq(t.rows, LAMBDA row : row[at] # NA)
        key(row) == <<row[at][1], row[loc(t, "Month_Year")]>>
        keys == {key(named[r]) : r \in DOMAIN named}
        key_lt(a, b) == \/ str_lt(Chars(a[1]), Chars(b[1]))
                        \/ a[1] = b[1] /\ date_lt(a[2] \o <<1>>, b[2] \o <<1>>)
        index == CHOOSE q \in [1..Cardinality(keys) -> keys] :
                    \A i, j \in DOMAIN q : i < j => key_lt(q[i], q[j])
        of(k) == SelectSeq(named, LAMBDA row : key(row) = k)
        figure(k, col) == max([r \in DOMAIN of(k) |-> of(k)[r][loc(t, col)]])
    IN  [i \in 1..Cardinality(keys) |->
            [Country |-> index[i][1], Month_Year |-> index[i][2],
             Confirmed |-> figure(index[i], "Confirmed"),
             Deaths |-> figure(index[i], "Deaths"),
             Recovered |-> figure(index[i], "Recovered")]]

\* Series.sort_values(ascending=False): kind defaults to 'quicksort', which
\* is not stable, so every arrangement with the values in non-increasing
\* order is a possible outcome.
sort_values(S) ==
    {[i \in DOMAIN S |-> S[p[i]]] :
        p \in {q \in [DOMAIN S -> DOMAIN S] :
                 /\ \A i, j \in DOMAIN S : i # j => q[i] # q[j]
                 /\ \A i, j \in DOMAIN S : i < j => S[q[i]].value >= S[q[j]].value}}

\* sorted(items, key=value, reverse=True): stable, so equal values keep the
\* order of the input.
sorted_reverse(S) ==
    LET p == CHOOSE q \in [DOMAIN S -> DOMAIN S] :
                 /\ \A i, j \in DOMAIN S : i # j => q[i] # q[j]
                 /\ \A i, j \in DOMAIN S : i < j =>
                       \/ S[q[i]].value > S[q[j]].value
                       \/ S[q[i]].value = S[q[j]].value /\ q[i] < q[j]
    IN  [i \in DOMAIN S |-> S[p[i]]]

\* Series.head(n) and list[:n]
head(S, n) == SubSeq(S, 1, Min({n, Len(S)}))

\* round(n / d * 100, 2) for n >= 0 and d > 0, in hundredths of a percent,
\* a half rounded to the even neighbour.
round_percent(n, d) ==
    LET q == (n * 10000) \div d
        r == (n * 10000) % d
    IN  IF 2 * r > d \/ (2 * r = d /\ q % 2 = 1) THEN q + 1 ELSE q

\* The latest date column of a table: get_date_columns(df)[-1].
latest_date(d) == get_date_columns(d)[Len(get_date_columns(d))]

\* The exception that leaves the try block of analyze_data_for_question, if
\* any: IndexError for a table without date columns; ZeroDivisionError for
\* the global rates when the confirmed and deaths tables have no rows (the
\* sums of two empty object columns are Python ints).
analysis_error(d) ==
    IF \E t \in 1..3 : get_date_columns(d[t]) = <<>> THEN <<"list index out of range">>
    ELSE IF d[1].rows = <<>> /\ d[2].rows = <<>> THEN <<"division by zero">>
    ELSE None

\* death_rates: for the countries with more than 1000 confirmed cases that
\* occur in the deaths table, in the order of the grouping, the rounded
\* death rate; then the 15 highest.
death_rates(d) ==
    LET country_confirmed == groupby_sum(d[1], latest_date(d[1]))
        country_deaths == groupby_sum(d[2], latest_date(d[2]))
        deaths_of(k) == country_deaths[CHOOSE i \in DOMAIN country_deaths :
                                          country_deaths[i].key = k].value
        significant == SelectSeq(country_confirmed,
                           LAMBDA e : /\ e.value > 1000
                                      /\ \E i \in DOMAIN country_deaths :
                                            country_deaths[i].key = e.key)
        rates == [i \in DOMAIN significant |->
                    [key |-> significant[i].key,
                     value |-> round_percent(deaths_of(significant[i].key),
                                             significant[i].value)]]
    IN  head(sorted_reverse(rates), 15)

\* analyze_data_for_question(user_question, confirmed_df, deaths_df,
\* recovered_df): the possible results, one per outcome of the three
\* sort_values calls. The keys kept are error, the totals of global_stats,
\* top_countries and death_rates; the rates of global_stats, country_specific
\* and trend_analysis only add text to the prompt.
analyze_data_for_question(d) ==
    IF analysis_error(d) # None
    THEN {[error |-> analysis_error(d)]}
    ELSE {[error |-> None,
           global_stats |-> [t \in 1..3 |-> sum(column(d[t], latest_date(d[t])))],
           top_countries |-> <<head(c, 20), head(x, 20), head(r, 20)>>,
           death_rates |-> death_rates(d)] :
              c \in sort_values(groupby_sum(d[1], latest_date(d[1]))),
              x \in sort_values(groupby_sum(d[2], latest_date(d[2]))),
              r \in sort_values(groupby_sum(d[3], latest_date(d[3])))}

\* What client.complete() can do: raise, or return a response with a list
\* of choices, each with a message content that is a text or None.
Completions ==
    {<<"raises">>, <<"choices", <<>>>>, <<"choices", <<NA>>>>,
     <<"choices", <<Some("")>>>>, <<"choices", <<Some("answer")>>>>}

\* get_enhanced_insights_response(user_question, confirmed_df, deaths_df,
\* recovered_df), given the result of the analysis and the outcome of the
\* completion call: the error text of a failed analysis; None when the call
\* raised or returned no choice (IndexError), both caught; else the content
\* of the first choice. A text is a pair <<kind, body>>.
get_enhanced_insights_response(analysis, completion) ==
    IF analysis.error # None
    THEN <<"Sorry, I encountered an error while analyzing the data", analysis.error[1]>>
    ELSE IF completion[1] = "raises" \/ completion[2] = <<>> THEN None
    ELSE IF completion[2][1] = NA THEN None
    ELSE <<"content", completion[2][1][1]>>

\* bool(text): None and the empty str are false.
truthy(text) == text # None /\ text[2] # ""

\* str.strip()
whitespace == {" "}
str_strip(s) ==
    LET solid == {i \in DOMAIN s : s[i] \notin whitespace}
    IN  IF solid = {} THEN <<>> ELSE SubSeq(s, Min(solid), Max(solid))

\* The texts that the three buttons of the quick analysis tab put in
\* st.session_state.quick_question.
quick_questions ==
    <<"Give me a comprehensive overview with exact current statistics from the real data",
      "Analyze which countries performed best with exact death rates and recovery rates from real data",
      "Show me the most important trends with exact growth rates and timeline data">>

\* Variant of chat_history_after that keeps the first 5 conversations.
chat_history_after_first_five(history, user_question, last_response) ==
    LET old == IF history = NA THEN <<>> ELSE history[1]
        conversation == <<user_question, last_response[1]>>
        new == IF /\ user_question # ""
                  /\ last_response # NA
                  /\ \A i \in DOMAIN old : old[i] # conversation
               THEN Append(old, conversation) ELSE old
    IN  Some(IF Len(new) > 5 THEN SubSeq(new, 1, 5) ELSE new)

\* The chat history after the run: the conversation (user_question,
\* last_response) is appended when the question is not empty, a last
\* response exists and the pair is not yet in the list; the last 5 are kept.
chat_history_after(history, user_question, last_response) ==
    LET old == IF history = NA THEN <<>> ELSE history[1]
        conversation == <<user_question, last_response[1]>>
        new == IF /\ user_question # ""
                  /\ last_response # NA
                  /\ \A i \in DOMAIN old : old[i] # conversation
               THEN Append(old, conversation) ELSE old
    IN  Some(IF Len(new) > 5 THEN SubSeq(new, Len(new) - 4, Len(new)) ELSE new)

----------------------------------------------------------------------------
\* The inputs: the three tables as pd.read_csv hands them to the pipeline.

RawHeaders ==
    {"Province_State", "Country_Region", "Lat", "Long", "Long_",
     "Province/State", "Country/Region", "Country State", "LATITUDE",
     "longitude", "Plate", "Notes", "1/22/20", "1/23/20", "1/24/20", "1/25/20", "2/1/20", "1/22/21",
     "01/22/20", "1/1/20", "1/2/20", "NaN"}

StdIds == <<"Province_State", "Country_Region", "Lat", "Long">>

\* The sequences over S of length at most n without a repeated element
\* (read_csv never yields two equal labels).
DistinctSeqs(S, n) ==
    {q \in UNION {[1..k -> S] : k \in 0..n} :
        \A i, j \in DOMAIN q : i # j => q[i] # q[j]}

Seqs(S, n) == UNION {[1..k -> S] : k \in 0..n}

StdTable ==
    [cols |-> StdIds \o <<"1/22/20">>,
     rows |-> << <<NA, Some("Canada"), Some(56), Some(0 - 106), Some(1)>> >>]

\* Tables with arbitrary headers and no rows.
HeaderChoice ==
    {"Province_State", "Country_Region", "Long_", "Country State",
     "LATITUDE", "Plate", "Notes", "1/22/20"}
HeaderTables == {[cols |-> h, rows |-> <<>>] : h \in DistinctSeqs(HeaderChoice, MaxCols)}

\* Tables whose four identity columns are spelled in different ways.
SpellingTables ==
    {[cols |-> <<p, c, la, lo, "1/22/20">>,
      rows |-> << <<Some("Ontario"), Some("Canada"), Some(56), Some(0 - 106), Some(1)>> >>] :
        p \in {"Province_State", "Province/State", "Country State"},
        c \in {"Country_Region", "Country/Region"},
        la \in {"Lat", "LATITUDE", "Plate"},
        lo \in {"Long", "longitude", "Long_"}}

\* Tables with missing and blank cells: rows that differ in the Province/State
\* and Country/Region cells, and rows that differ in the date cells.
FillIds ==
    {<<NA, Some("Canada")>>, <<Some(""), Some("Canada")>>, <<Some("Ontario"), Some("Canada")>>,
     <<Some("Ontario"), NA>>, <<NA, NA>>}
FillValues ==
    {<<Some(1), Some(2), Some(3)>>, <<NA, Some(5), NA>>, <<Some(5), NA, NA>>,
     <<NA, NA, NA>>}
FillRows ==
    {i \o <<Some(56), NA>> \o <<Some(1), Some(2), Some(3)>> : i \in FillIds}
    \cup {<<NA, Some("Canada"), Some(56), NA>> \o v : v \in FillValues}
FillTables ==
    {[cols |-> StdIds \o <<"1/22/20", "1/23/20", "1/24/20">>, rows |-> r] :
        r \in Seqs(FillRows, MaxFillRows)}

\* Tables for the join: two locations (one of them without a longitude),
\* possibly repeated, and cell values that tell the table, the row and the
\* column apart.
Canada == <<NA, Some("Canada"), Some(56), Some(0 - 106)>>
Ontario == <<Some("Ontario"), Some("Canada"), Some(51), NA>>
JoinIds == {Canada, Ontario}
JoinRows(t, dl, ids) ==
    [i \in DOMAIN ids |-> ids[i] \o [j \in DOMAIN dl |-> Some(100 * t + 10 * i + j)]]
JoinTables(t, dateLists, idLists) ==
    {[cols |-> StdIds \o dl, rows |-> JoinRows(t, dl, ids)] :
        dl \in dateLists, ids \in idLists}

\* Tables with a column that is no date, and with two headers for one date;
\* a table with a column whose header reads NaN.
OddTables ==
    JoinTables(1, {<<"1/22/20", "Notes">>, <<"1/22/20", "01/22/20">>},
               {<<>>, <<Canada>>, <<Canada, Ontario>>})
    \cup JoinTables(1, {<<"1/22/20", "NaN">>}, {<<Canada>>})

\* Tables of cumulative series: two provinces of France, and Germany,
\* a series that grows, one that was revised downwards and one with missing
\* cells, under date headers in calendar order, out of calendar order, and
\* two headers for one date.
FranceMain == <<NA, Some("France"), Some(46), Some(2)>>
FranceReunion == <<Some("Reunion"), Some("France"), Some(0 - 21), Some(55)>>
Germany == <<NA, Some("Germany"), Some(51), Some(10)>>
Cumulative == <<Some(0), Some(10), Some(10), Some(25)>>
Revised == <<Some(10), Some(8), Some(8), Some(9)>>
Gappy == <<NA, Some(5), NA, Some(7)>>
SeriesDates ==
    {<<"1/22/20", "1/23/20", "1/24/20", "1/25/20">>, <<"1/23/20", "1/22/20">>,
     <<"1/22/20", "01/22/20">>}
SeriesRows(dl) ==
    {i \o SubSeq(Cumulative, 1, Len(dl)) : i \in {FranceReunion, Germany}}
    \cup {FranceMain \o SubSeq(v, 1, Len(dl)) : v \in {Revised, Gappy}}
SeriesTables ==
    UNION {{[cols |-> StdIds \o dl, rows |-> r] : r \in DistinctSeqs(SeriesRows(dl), MaxRows)} :
            dl \in SeriesDates}

Italy == <<NA, Some("Italy"), Some(41), Some(12)>>

\* Tables for the rates: one location over two months of 2020 and one day
\* of 2021, with months without cases, with deaths and without.
RateDates == <<"1/22/20", "1/23/20", "2/1/20", "1/22/21">>
RateTable(values) == [cols |-> StdIds \o RateDates, rows |-> <<Italy \o values>>]
RateInputs ==
    {<<RateTable(c), RateTable(d), RateTable(<<Some(0), Some(0), Some(10), Some(20)>>)>> :
        c \in {<<Some(0), Some(0), Some(2000), Some(3000)>>,
               <<Some(0), Some(0), Some(0), Some(0)>>,
               <<NA, Some(1000), Some(1000), Some(1000)>>,
               <<Some(10), Some(20), Some(30), Some(40)>>},
        d \in {<<Some(0), Some(0), Some(50), Some(60)>>,
               <<Some(0), Some(5), Some(50), Some(60)>>,
               <<NA, NA, NA, NA>>}}

\* Tables for the assistant page: four countries with the given values on
\* the latest date, with equal totals and equal death rates among them; a
\* table without date columns and one without rows.
CountryTable(values) ==
    [cols |-> StdIds \o <<"1/22/20", "1/23/20">>,
     rows |-> <<Germany \o <<Some(0), Some(values[1])>>,
                FranceMain \o <<Some(0), Some(values[2])>>,
                Canada \o <<Some(0), Some(values[3])>>,
                Italy \o <<NA, Some(values[4])>>>>]
NoDatesTable == [cols |-> StdIds, rows |-> <<Canada>>]
NoRowsTable == [cols |-> StdIds \o <<"1/22/20">>, rows |-> <<>>]
AssistantInputs ==
    {<<CountryTable(c), CountryTable(x), CountryTable(<<10, 20, 30, 40>>)>> :
        c \in {<<5000, 5000, 2000, 3000>>, <<5000, 4000, 900, 0>>},
        x \in {<<100, 250, 100, 150>>, <<50, 40, 30, 20>>}}
    \cup {<<NoDatesTable, StdTable, StdTable>>, <<StdTable, StdTable, NoDatesTable>>,
          <<NoRowsTable, NoRowsTable, StdTable>>, <<NoRowsTable, StdTable, StdTable>>}

\* One country over the first two days of 2020, one row per table: the
\* confirmed cases, the deaths and the recoveries.
Testland == <<NA, Some("Testland"), Some(0), Some(0)>>
TestlandTable(values) ==
    [cols |-> StdIds \o <<"1/1/20", "1/2/20">>, rows |-> <<Testland \o values>>]
TestlandInput ==
    <<TestlandTable(<<Some(5), Some(8)>>), TestlandTable(<<Some(2), Some(3)>>),
      TestlandTable(<<Some(1), Some(4)>>)>>

RawInputs ==
    RateInputs
    \cup
    {TestlandInput}
    \cup
    {<<t, StdTable, StdTable>> :
        t \in HeaderTables \cup SpellingTables \cup FillTables \cup OddTables}
    \cup
    {<<t, t, StdTable>> : t \in SeriesTables}
    \cup
    {<<a, b, c>> :
        a \in JoinTables(1, {<<"1/22/20">>, <<"1/22/20", "1/23/20">>}, Seqs(JoinIds, MaxRows)),
        b \in JoinTables(2, {<<"1/22/20", "1/23/20">>},
                         {<<Canada, Ontario>>, <<Canada, Canada>>, <<Ontario>>}),
        c \in JoinTables(3, {<<"1/23/20">>, <<"1/22/20", "1/23/20">>},
                         DistinctSeqs(JoinIds, 2) \cup {<<Canada, Canada>>})}

----------------------------------------------------------------------------
\* The script.

\* The browser sessions of the process, each running the script in a
\* thread of its own.
Sessions == 1..MaxSessions

\* A session between two script runs.
Idle == [at |-> "idle", df |-> None]

Init ==
    /\ pc = "start"
    /\ raw \in RawInputs
    /\ df = None
    /\ col_map = None
    /\ selected = ""
    /\ long = None
    /\ merged_df = None
    /\ cleaned = None
    /\ daily_new = None
    /\ country_rates = None
    /\ st_error = None
    /\ cache = None
    /\ reads = [k \in 1..3 |-> 0]
    /\ analysis_results = None
    /\ ai_response = None
    /\ session_state = [last_response |-> NA, quick_question |-> NA, chat_history |-> NA]
    /\ sessions = [s \in Sessions |-> Idle]
    /\ lock = None
    /\ argument = None
    /\ monthly_country = None
    /\ calls = None
    /\ st_warning = None
    /\ widgets = None

\* Variant of column_map_raises that raises for a label no rule maps.
column_map_raises_unmapped(d) ==
    \E i \in DOMAIN d.cols : d.cols[i] \notin STRING \/ canonical_of(d.cols[i]) = Unmapped

\* col.lower() raises AttributeError for a label that is not a str; the
\* exception leaves get_standard_column_map.
column_map_raises(d) == \E i \in DOMAIN d.cols : d.cols[i] \notin STRING

\* What the three pd.read_csv calls can give for the tables on disk: for each
\* file the parsed table, or None when the call raises (file missing or
\* unreadable).
Files(tables) == {f \in [1..3 -> {None} \cup {<<tables[k]>> : k \in 1..3}] :
                    \A k \in 1..3 : f[k] \in {None, <<tables[k]>>}}

\* The read_csv calls made: in file order, up to the first one that raises.
read_csv_calls(files) ==
    [k \in 1..3 |-> IF \A j \in 1..(k - 1) : files[j] # None THEN 1 ELSE 0]

NoTables == <<None, None, None>>

\* Variant of load_and_prepare_datasets that handles each file on its own.
load_and_prepare_datasets_per_file(files) ==
    [value |-> [t \in 1..3 |->
                   IF files[t] = None \/ column_map_raises(files[t][1]) THEN None
                   ELSE clean_province_column(standardize_dataframe_columns(files[t][1]))],
     error |-> IF \E k \in 1..3 : files[k] = None
               THEN <<"read_csv", Min({k \in 1..3 : files[k] = None})>>
               ELSE IF \E k \in 1..3 : column_map_raises(files[k][1])
                    THEN <<"get_standard_column_map", 0>> ELSE None]

\* load_and_prepare_datasets(): the three files are read, the tables
\* standardized, then their Province/State column cleaned; any exception is
\* caught, shown with st.error, and (None, None, None) returned. The result
\* is the returned triple and the exception caught, if any.
load_and_prepare_datasets(files) ==
    IF \E k \in 1..3 : files[k] = None
    THEN [value |-> NoTables,
          error |-> <<"read_csv", Min({k \in 1..3 : files[k] = None})>>]
    ELSE IF \E k \in 1..3 : column_map_raises(files[k][1])
         THEN [value |-> NoTables, error |-> <<"get_standard_column_map", 0>>]
         ELSE [value |-> [t \in 1..3 |->
                             clean_province_column(standardize_dataframe_columns(files[t][1]))],
               error |-> None]

\* The lookup of st.cache_data: a hit when the entry exists.
cache_hit(c) == c # None

\* The call of the cached load_and_prepare_datasets() at the top of the
\* script and the st.stop() that follows a (None, None, None) result: on a
\* hit the stored result is returned, otherwise the function runs and its
\* result is stored.
Load ==
    /\ pc = "start"
    /\ \E files \in Files(raw) :
         /\ cache' = IF cache_hit(cache) THEN cache
                     ELSE <<load_and_prepare_datasets(files)>>
         /\ reads' = IF cache_hit(cache) THEN reads
                     ELSE [k \in 1..3 |-> reads[k] + read_csv_calls(files)[k]]
    /\ df' = cache'[1].value
    /\ col_map' = IF cache'[1].error # None THEN None
                  ELSE [t \in 1..3 |-> get_standard_column_map(raw[t])]
    /\ argument' = IF cache'[1].error # None THEN None
                   ELSE [t \in 1..3 |->
                           clean_province_column_argument(
                               standardize_dataframe_columns(raw[t]))]
    /\ pc' = IF \E t \in 1..3 : df'[t] = None THEN "stopped" ELSE "loaded"
    /\ UNCHANGED <<raw, selected, long, merged_df, cleaned, daily_new, country_rates,
                   st_error, analysis_results, ai_response, session_state, sessions, lock,
                   monthly_country, calls, st_warning, widgets>>

required_columns == <<"Province/State", "Country/Region", "Lat", "Long">>

dataset_names == <<"Confirmed", "Deaths", "Recovered">>

\* The required columns that table d lacks, as indices of required_columns.
missing_columns(d) == {c \in 1..4 : positions(d, required_columns[c]) = {}}

\* The f-string of the st.error call for dataset t and required column c:
\* its three fields, the last being list(df.columns) of the table returned
\* by load_and_prepare_datasets.
missing_message(d, t, c) ==
    [col |-> required_columns[c], name |-> dataset_names[t], columns |-> d[t].cols]

\* The check for required columns: st.error() and st.stop() at the first
\* missing one, datasets in the order of the zip, columns in list order.
CheckRequired ==
    /\ pc = "loaded"
    /\ IF \A t \in 1..3 : missing_columns(df[t]) = {}
       THEN /\ pc' = "ready"
            /\ st_error' = None
       ELSE LET t == Min({u \in 1..3 : missing_columns(df[u]) # {}})
                c == Min(missing_columns(df[t]))
            IN  /\ pc' = "stopped"
                /\ st_error' = <<missing_message(df, t, c)>>
    /\ UNCHANGED <<raw, df, col_map, selected, long, merged_df, cleaned, daily_new, country_rates, cache, reads, analysis_results, ai_response, session_state, sessions, lock, argument, monthly_country, calls, st_warning, widgets>>

\* The Overview branch renders text and the shapes of the tables.
Overview ==
    /\ pc = "ready"
    /\ selected' = "Overview"
    /\ pc' = "done"
    /\ UNCHANGED <<raw, df, col_map, long, merged_df, cleaned, daily_new, country_rates, st_error, cache, reads, analysis_results, ai_response, session_state, sessions, lock, argument, monthly_country, calls, st_warning, widgets>>

\* The entries of the navigation list, by the short names that the model
\* gives to selected_question (the labels without their emoji and title).
question_list ==
    <<"Overview", "Executive Summary", "AI Data Assistant", "Q1", "Q2", "Q3", "Q4",
      "Q5", "Q6", "Q7", "Q8">>

\* The labels that the if / elif chain of the dispatch compares
\* selected_question with, in the order of the chain.
branches ==
    <<"Overview", "Executive Summary", "AI Data Assistant", "Q1", "Q2", "Q3", "Q4",
      "Q5", "Q6", "Q7", "Q8">>

\* The number of arguments of the call in the branch of entry q (the
\* Overview branch calls no handler), and the number of parameters in the
\* def of the handler it calls.
call_arguments(q) == IF q = "Overview" THEN 0 ELSE 3
handler_parameters(q) == IF q \in {"Overview", "Q1"} THEN 0 ELSE 3

\* The call raises TypeError when the two numbers differ (no handler has
\* defaults, *args or **kwargs).
call_raises(q) == call_arguments(q) # handler_parameters(q)

\* The Q1 branch: show_data_loading_section, defined without parameters, is
\* called with the three tables; the call raises TypeError before the body
\* (and its own cached loader) runs.
Q1 ==
    /\ pc = "ready"
    /\ selected' = "Q1"
    /\ pc' = IF call_raises("Q1") THEN "error" ELSE "done"
    /\ UNCHANGED <<raw, df, col_map, long, merged_df, cleaned, daily_new, country_rates, st_error, cache, reads, analysis_results, ai_response, session_state, sessions, lock, argument, monthly_country, calls, st_warning, widgets>>

\* show_handling_missing_data_section(confirmed_df, deaths_df, recovered_df)
Q3 ==
    /\ pc = "ready"
    /\ selected' = "Q3"
    /\ cleaned' = [t \in 1..3 |-> q3_clean(df[t])]
    /\ pc' = "done"
    /\ UNCHANGED <<raw, df, col_map, long, merged_df, daily_new, country_rates, st_error, cache, reads, analysis_results, ai_response, session_state, sessions, lock, argument, monthly_country, calls, st_warning, widgets>>

\* show_data_cleaning_section(confirmed_df, deaths_df, recovered_df)
Q4 ==
    /\ pc = "ready"
    /\ selected' = "Q4"
    /\ cleaned' = [t \in 1..3 |-> q4_clean(df[t])]
    /\ pc' = "done"
    /\ UNCHANGED <<raw, df, col_map, long, merged_df, daily_new, country_rates, st_error, cache, reads, analysis_results, ai_response, session_state, sessions, lock, argument, monthly_country, calls, st_warning, widgets>>

\* show_independent_analysis_section(confirmed_df, deaths_df, recovered_df):
\* the daily new cases of Germany, France and Italy (Q5.1), the recovery
\* rates at target_date (Q5.2), the death rates of the provinces of Canada
\* (Q5.3).
Q5 ==
    /\ pc = "ready"
    /\ selected' = "Q5"
    /\ daily_new' = q5_peak(df[1])
    /\ pc' = IF q5_raises(df) THEN "error" ELSE "done"
    /\ UNCHANGED <<raw, df, col_map, long, merged_df, cleaned, country_rates, st_error, cache, reads, analysis_results, ai_response, session_state, sessions, lock, argument, monthly_country, calls, st_warning, widgets>>

\* show_data_transformation_section(confirmed_df, deaths_df, recovered_df):
\* deaths_long (Q6.1; pd.to_datetime may raise, and the strftime of the
\* first date raises when deaths_long has no rows), the totals per country
\* (Q6.2), the daily new deaths of every country (Q6.3; sort_values raises
\* KeyError when no country has a positive average), the totals of US (Q6.4).
Q6 ==
    /\ pc = "ready"
    /\ selected' = "Q6"
    /\ LET l == transform_to_long_format(df[2], "Deaths") IN
       IF l = <<>> \/ l[1].rows = <<>>
       THEN /\ daily_new' = None
            /\ pc' = "error"
       ELSE /\ daily_new' = q6_daily(l[1])
            /\ pc' = IF \/ \A k \in DOMAIN q6_daily(l[1]) : ~q6_included(q6_daily(l[1])[k])
                        \/ q6_4_raises(l[1])
                     THEN "error" ELSE "done"
    /\ UNCHANGED <<raw, df, col_map, long, merged_df, cleaned, country_rates, st_error, cache, reads, analysis_results, ai_response, session_state, sessions, lock, argument, monthly_country, calls, st_warning, widgets>>

\* The three calls of transform_to_long_format of Q7 and Q8.
long_of(d) == [t \in 1..3 |-> transform_to_long_format(d[t], value_names[t])]

\* show_data_merging_section(confirmed_df, deaths_df, recovered_df): reshape,
\* merge confirmed with deaths, merge the result with recovered (Q7.1), add
\* the Month_Year column and chart the monthly maxima per country (Q7.2),
\* compare US, Italy and Brazil (Q7.3).  An exception of pd.to_datetime or
\* of Q7.3 ends the run.
Q7 ==
    /\ pc = "ready"
    /\ selected' = "Q7"
    /\ LET l == long_of(df) IN
       IF \E t \in 1..3 : l[t] = <<>>
       THEN /\ pc' = "error"
            /\ UNCHANGED <<long, merged_df, monthly_country>>
       ELSE LET m == merge(merge(l[1][1], l[2][1]), l[3][1]) IN
            /\ long' = [t \in 1..3 |-> l[t][1]]
            /\ merged_df' = <<with_month_year(m)>>
            /\ monthly_country' = <<q7_monthly_country(with_month_year(m))>>
            /\ pc' = IF q7_3_raises(m) THEN "error" ELSE "done"
    /\ UNCHANGED <<raw, df, col_map, cleaned, daily_new, country_rates, st_error, cache, reads, analysis_results, ai_response, session_state, sessions, lock, argument, calls, st_warning, widgets>>

\* show_combined_analysis_section(confirmed_df, deaths_df, recovered_df):
\* reshape and merge as Q7, the monthly death rates of every country in 2020
\* and the three highest averages (Q8.1), South Africa (Q8.2), the monthly
\* recovery ratios of US (Q8.3).
Q8 ==
    /\ pc = "ready"
    /\ selected' = "Q8"
    /\ LET l == long_of(df) IN
       IF \E t \in 1..3 : l[t] = <<>>
       THEN /\ pc' = "error"
            /\ UNCHANGED <<long, merged_df, country_rates>>
       ELSE LET m == merge(merge(l[1][1], l[2][1]), l[3][1]) IN
            /\ long' = [t \in 1..3 |-> l[t][1]]
            /\ merged_df' = <<m>>
            /\ country_rates' = q8_country_rates(m)
            /\ pc' = IF q8_1_raises(m) \/ q8_3_raises(m) THEN "error" ELSE "done"
    /\ UNCHANGED <<raw, df, col_map, cleaned, daily_new, st_error, cache, reads, analysis_results, ai_response, session_state, sessions, lock, argument, monthly_country, calls, st_warning, widgets>>

\* The texts typed into the text area of the assistant page.
Questions == {"", " ", "Italy"}

\* Variant of del_quick_question that deletes only after a response that is
\* not empty.
del_quick_question_after_response(quick_question, response) ==
    IF truthy(response) THEN NA ELSE quick_question

\* del st.session_state.quick_question, at the end of the block that handles
\* the quick question, whatever the call returned.
del_quick_question(quick_question, response) == NA

\* What one call of get_enhanced_insights_response can meet: a result of the
\* analysis and an outcome of the completion call.
Outcomes(d) == {<<a, c>> : a \in analyze_data_for_question(d), c \in Completions}
NoCall == {<<None, None>>}

\* show_ai_insights_section(confirmed_df, deaths_df, recovered_df): the
\* client is created (st.stop() without a token or when the constructor of
\* the client raises); the submit button (1) calls
\* get_enhanced_insights_response with a question that is not blank and
\* warns about a blank one; one of the three quick buttons (2..4) sets
\* st.session_state.quick_question; a quick_question in the session state is
\* passed to get_enhanced_insights_response and deleted; a response that is
\* not empty becomes st.session_state.last_response; then the chat history
\* is updated.
Assistant ==
    /\ pc = "ready"
    /\ selected' = "AI Data Assistant"
    /\ \E token_found, client_created \in BOOLEAN, user_question \in Questions,
          button \in 0..4 :
         IF ~(token_found /\ client_created)
         THEN /\ pc' = "stopped"
              /\ UNCHANGED <<analysis_results, ai_response, session_state, calls, st_warning,
                             widgets>>
         ELSE LET submit == button = 1 /\ str_strip(Chars(user_question)) # <<>>
                  quick_question == IF button \in 2..4 THEN Some(quick_questions[button - 1])
                                    ELSE session_state.quick_question
                  quick == quick_question # NA
              IN  \E first \in IF submit THEN Outcomes(df) ELSE NoCall,
                     second \in IF quick THEN Outcomes(df) ELSE NoCall :
                    LET submitted == get_enhanced_insights_response(first[1], first[2])
                        answered == get_enhanced_insights_response(second[1], second[2])
                        after_submit == IF submit /\ truthy(submitted) THEN Some(submitted)
                                        ELSE session_state.last_response
                        last_response == IF quick /\ truthy(answered) THEN Some(answered)
                                         ELSE after_submit
                    IN  /\ calls' = (IF submit
                                     THEN <<[question |-> user_question,
                                             response |-> submitted]>>
                                     ELSE <<>>)
                                    \o (IF quick
                                        THEN <<[question |-> quick_question[1],
                                                response |-> answered]>>
                                        ELSE <<>>)
                        /\ analysis_results' = (IF submit THEN <<first[1]>> ELSE <<>>)
                                               \o (IF quick THEN <<second[1]>> ELSE <<>>)
                        /\ ai_response' = IF quick THEN answered
                                          ELSE IF submit THEN submitted ELSE None
                        /\ widgets' = [text_area |-> user_question, button |-> button]
                        /\ st_warning' = IF button = 1 /\ ~submit
                                         THEN <<"Please enter a question to get real-time analysis.">>
                                         ELSE None
                        /\ session_state' =
                              [last_response |-> last_response,
                               quick_question |->
                                   IF quick THEN del_quick_question(quick_question, answered)
                                   ELSE NA,
                               chat_history |->
                                   chat_history_after(session_state.chat_history,
                                                      user_question, last_response)]
                        /\ pc' = "done"
    /\ UNCHANGED <<raw, df, col_map, long, merged_df, cleaned, daily_new, country_rates,
                   st_error, cache, reads, sessions, lock, argument, monthly_country>>

\* A widget interaction reruns the script from the top; its variables are
\* rebuilt by the run.
Rerun ==
    /\ pc \in {"done", "stopped", "error"}
    /\ pc' = "start"
    /\ df' = None
    /\ col_map' = None
    /\ selected' = ""
    /\ long' = None
    /\ merged_df' = None
    /\ cleaned' = None
    /\ daily_new' = None
    /\ country_rates' = None
    /\ st_error' = None
    /\ analysis_results' = None
    /\ ai_response' = None
    /\ argument' = None
    /\ monthly_country' = None
    /\ calls' = None
    /\ st_warning' = None
    /\ widgets' = None
    /\ UNCHANGED <<raw, cache, reads, session_state, sessions, lock>>

Next == Load \/ CheckRequired \/ Overview \/ Q1 \/ Q3 \/ Q4 \/ Q5 \/ Q6 \/ Q7 \/ Q8 \/ Rerun

Spec == Init /\ [][Next]_vars

\* The runs that select the assistant page. Its session state is read by no
\* other section, and it reads nothing the other sections write.
InitAssistant ==
    /\ pc = "start"
    /\ raw \in AssistantInputs
    /\ df = None
    /\ col_map = None
    /\ selected = ""
    /\ long = None
    /\ merged_df = None
    /\ cleaned = None
    /\ daily_new = None
    /\ country_rates = None
    /\ st_error = None
    /\ cache = None
    /\ reads = [k \in 1..3 |-> 0]
    /\ analysis_results = None
    /\ ai_response = None
    /\ session_state = [last_response |-> NA, quick_question |-> NA, chat_history |-> NA]
    /\ sessions = [s \in Sessions |-> Idle]
    /\ lock = None
    /\ argument = None
    /\ monthly_country = None
    /\ calls = None
    /\ st_warning = None
    /\ widgets = None

NextAssistant == Load \/ CheckRequired \/ Assistant \/ Rerun

SpecAssistant == InitAssistant /\ [][NextAssistant]_vars

----------------------------------------------------------------------------
\* Concurrent sessions: the call of the cached load_and_prepare_datasets()
\* step by step, as st.cache_data runs it for each session.

\* A script run of session s starts (a rerun or a navigation selection) and
\* reaches the cached call.
Call(s) ==
    /\ sessions[s].at = "idle"
    /\ sessions' = [sessions EXCEPT ![s].at = "lookup"]
    /\ UNCHANGED <<cache, reads, lock>>

\* The first lookup, without the lock: a hit returns the stored result.
Lookup(s) ==
    /\ sessions[s].at = "lookup"
    /\ sessions' = [sessions EXCEPT ![s] =
                      IF cache_hit(cache) THEN [at |-> "returned", df |-> cache[1].value]
                      ELSE [at |-> "miss", df |-> None]]
    /\ UNCHANGED <<cache, reads, lock>>

\* Variant of lock_free that lets every session in.
lock_free_always(l) == TRUE

\* The compute lock of the entry can be taken when no session holds it.
lock_free(l) == l = None

\* After a miss the session takes the compute lock of the entry.
Acquire(s) ==
    /\ sessions[s].at = "miss"
    /\ lock_free(lock)
    /\ lock' = <<s>>
    /\ sessions' = [sessions EXCEPT ![s].at = "locked"]
    /\ UNCHANGED <<cache, reads>>

\* Under the lock the entry is looked up again: another session may have
\* stored it in the meantime.
Recheck(s) ==
    /\ sessions[s].at = "locked"
    /\ IF cache_hit(cache)
       THEN /\ sessions' = [sessions EXCEPT ![s] =
                               [at |-> "returned", df |-> cache[1].value]]
            /\ lock' = None
       ELSE /\ sessions' = [sessions EXCEPT ![s].at = "computing"]
            /\ lock' = lock
    /\ UNCHANGED <<cache, reads>>

\* The function runs, its result is stored and returned, the lock released.
Compute(s) ==
    /\ sessions[s].at = "computing"
    /\ \E files \in Files(raw) :
         /\ cache' = <<load_and_prepare_datasets(files)>>
         /\ reads' = [k \in 1..3 |-> reads[k] + read_csv_calls(files)[k]]
    /\ sessions' = [sessions EXCEPT ![s] = [at |-> "returned", df |-> cache'[1].value]]
    /\ lock' = None

\* The script run of session s ends.
Finish(s) ==
    /\ sessions[s].at = "returned"
    /\ sessions' = [sessions EXCEPT ![s] = Idle]
    /\ UNCHANGED <<cache, reads, lock>>

SessionInputs ==
    {<<StdTable, StdTable, StdTable>>, <<NoRowsTable, StdTable, StdTable>>,
     <<CountryTable(<<1, 2, 3, 4>>), StdTable, NoDatesTable>>}

InitSessions ==
    /\ pc = "start"
    /\ raw \in SessionInputs
    /\ df = None
    /\ col_map = None
    /\ selected = ""
    /\ long = None
    /\ merged_df = None
    /\ cleaned = None
    /\ daily_new = None
    /\ country_rates = None
    /\ st_error = None
    /\ cache = None
    /\ reads = [k \in 1..3 |-> 0]
    /\ analysis_results = None
    /\ ai_response = None
    /\ session_state = [last_response |-> NA, quick_question |-> NA, chat_history |-> NA]
    /\ sessions = [s \in Sessions |-> Idle]
    /\ lock = None
    /\ argument = None
    /\ monthly_country = None
    /\ calls = None
    /\ st_warning = None
    /\ widgets = None

NextSessions ==
    /\ \E s \in Sessions :
          Call(s) \/ Lookup(s) \/ Acquire(s) \/ Recheck(s) \/ Compute(s) \/ Finish(s)
    /\ UNCHANGED <<pc, raw, df, col_map, selected, long, merged_df, cleaned, daily_new,
                   country_rates, st_error, analysis_results, ai_response, session_state,
                   argument, monthly_country, calls, st_warning, widgets>>

SpecSessions == InitSessions /\ [][NextSessions]_vars

----------------------------------------------------------------------------
\* The chat history section of the assistant page on its own: a session that
\* has no conversation yet or holds five, and runs that reach the section
\* with any text in the text area and any last response.

HistoryQuestions == {"", " ", "Italy", "France"}
HistoryResponses == {<<"content", "answer">>, <<"content", "reply">>}
FiveConversations ==
    <<<<"Italy", <<"content", "answer">>>>, <<"Italy", <<"content", "reply">>>>,
      <<"France", <<"content", "answer">>>>, <<"France", <<"content", "reply">>>>,
      <<" ", <<"content", "answer">>>>>>

InitHistory ==
    /\ pc = "history"
    /\ raw = TestlandInput
    /\ df = None
    /\ col_map = None
    /\ selected = "AI Data Assistant"
    /\ long = None
    /\ merged_df = None
    /\ cleaned = None
    /\ daily_new = None
    /\ country_rates = None
    /\ st_error = None
    /\ cache = None
    /\ reads = [k \in 1..3 |-> 0]
    /\ analysis_results = None
    /\ ai_response = None
    /\ \E history \in {NA, Some(FiveConversations)} :
          session_state = [last_response |-> NA, quick_question |-> NA,
                           chat_history |-> history]
    /\ sessions = [s \in Sessions |-> Idle]
    /\ lock = None
    /\ argument = None
    /\ monthly_country = None
    /\ calls = None
    /\ st_warning = None
    /\ widgets = None

\* The section "Recent Conversations" of show_ai_insights_section: the list
\* is created when absent, and the conversation of the text of the text area
\* with the last response is added.
ChatHistory ==
    /\ pc = "history"
    /\ \E user_question \in HistoryQuestions,
          last_response \in {NA} \cup {Some(r) : r \in HistoryResponses} :
          /\ widgets' = [text_area |-> user_question, button |-> 0]
          /\ session_state' =
                [last_response |-> last_response,
                 quick_question |-> NA,
                 chat_history |-> chat_history_after(session_state.chat_history,
                                                     user_question, last_response)]
    /\ UNCHANGED <<pc, raw, df, col_map, selected, long, merged_df, cleaned, daily_new,
                   country_rates, st_error, cache, reads, analysis_results, ai_response,
                   sessions, lock, argument, monthly_country, calls, st_warning>>

NextHistory == ChatHistory

SpecHistory == InitHistory /\ [][NextHistory]_vars

----------------------------------------------------------------------------
\* Properties.

\* The five-tuple (Province/State, Country/Region, Lat, Long, Date) of a row
\* of a long or merged table: its first five cells.
RowKey(row) == SubSeq(row, 1, 5)
KeySet(t) == {RowKey(t.rows[n]) : n \in DOMAIN t.rows}
KeyCount(t, k) == Cardinality({n \in DOMAIN t.rows : RowKey(t.rows[n]) = k})
DateSet(t) == {t.rows[n][5] : n \in DOMAIN t.rows}
IdSet(t) == {SubSeq(t.rows[n], 1, 4) : n \in DOMAIN t.rows}

\* A run of Q7 or Q8 has produced the long tables and the merged table (the
\* analysis that follows the merge may have ended the run with an exception).
Joined == pc \in {"done", "error"} /\ selected \in {"Q7", "Q8"} /\ merged_df # None
M == merged_df[1]
CommonKeys == KeySet(long[1]) \cap KeySet(long[2]) \cap KeySet(long[3])
CommonDates == DateSet(long[1]) \cap DateSet(long[2]) \cap DateSet(long[3])
CommonIds == IdSet(long[1]) \cap IdSet(long[2]) \cap IdSet(long[3])

\* C1 (as stated): a key is in the merged table iff it is in all three long
\* tables, and the dates of the merged table are the intersection of the
\* three tables' date sets.
C1_Original ==
    Joined => /\ KeySet(M) = CommonKeys
              /\ DateSet(M) = CommonDates

\* C1 (amended): a key is in the merged table iff it is in all three long
\* tables; the dates of the merged table lie in the intersection of the three
\* date sets (never in the union only), and are that intersection whenever
\* some location is common to the three tables.
C1_KeysAreIntersection ==
    Joined => /\ KeySet(M) = CommonKeys
              /\ DateSet(M) \subseteq CommonDates
              /\ (CommonIds # {} => DateSet(M) = CommonDates)

C1_Witness ==
    /\ Joined
    /\ M.rows # <<>>
    /\ DateSet(long[1]) # DateSet(long[3])
    /\ KeySet(long[1]) \ KeySet(M) # {}
    /\ KeySet(long[3]) \ KeySet(M) # {}

\* C2: a key that occurs a, b and c times in the confirmed, deaths and
\* recovered long tables occurs a*b*c times in the merged table.
C2_CrossProduct ==
    Joined =>
        \A k \in KeySet(long[1]) \cup KeySet(long[2]) \cup KeySet(long[3]) \cup KeySet(M) :
            KeyCount(M, k) = KeyCount(long[1], k) * KeyCount(long[2], k) * KeyCount(long[3], k)

C2_Witness ==
    /\ Joined
    /\ \E k \in KeySet(M) :
          /\ KeyCount(long[1], k) = 2
          /\ KeyCount(long[2], k) = 2
          /\ KeyCount(long[3], k) = 2
          /\ KeyCount(M, k) = 8

SameKeySets == KeySet(long[1]) = KeySet(long[2]) /\ KeySet(long[2]) = KeySet(long[3])
DisjointKeySets ==
    \A s, t \in 1..3 : s # t => KeySet(long[s]) \cap KeySet(long[t]) = {}
NoDuplicateKeys ==
    \A t \in 1..3 : \A k \in KeySet(long[t]) : KeyCount(long[t], k) = 1
MinRows == Min({Len(long[t].rows) : t \in 1..3})

\* C3 (as stated): with identical key sets the merged table has as many rows
\* as the smallest of the three tables; with pairwise disjoint key sets it
\* has none.
C3_Original ==
    Joined => /\ (SameKeySets => Len(M.rows) = MinRows)
              /\ (DisjointKeySets => Len(M.rows) = 0)

\* C3 (amended): with identical key sets and no key repeated inside a table
\* the merged table has as many rows as the smallest of the three tables
\* (one per key); with pairwise disjoint key sets it has none.
C3_RowCount ==
    Joined => /\ (SameKeySets /\ NoDuplicateKeys =>
                    Len(M.rows) = MinRows /\ Len(M.rows) = Cardinality(CommonKeys))
              /\ (DisjointKeySets => Len(M.rows) = 0)

C3_Witness ==
    /\ Joined
    /\ SameKeySets
    /\ NoDuplicateKeys
    /\ Len(M.rows) = 4

\* The long row expected for row i and the j-th date column of the wide
\* table W: the row's identity cells, the header as a date, the cell.
IdCells(W, i) ==
    [c \in 1..4 |-> W.rows[i][CHOOSE x \in DOMAIN W.cols : W.cols[x] = id_vars[c]]]
Expected(W, i, j) ==
    LET x == date_positions(W)[j] IN
    IdCells(W, i) \o <<parse_date(Chars(W.cols[x])), W.rows[i][x]>>
NumRows(W) == Len(W.rows)
NumDates(W) == Len(date_positions(W))
Pairs(W) == (1..NumRows(W)) \X (1..NumDates(W))

\* C4: the long table of a wide table with R rows and D date columns has the
\* columns Province/State, Country/Region, Lat, Long, Date and the value
\* column only, and R*D rows: one per (row, date column) pair, carrying the
\* row's identity cells, the parsed header and the cell.
C4_OneRowPerPair ==
    Joined =>
        \A t \in 1..3 :
            LET W == df[t]
                L == long[t]
            IN  /\ L.cols = <<"Province/State", "Country/Region", "Lat", "Long",
                              "Date", value_names[t]>>
                /\ Len(L.rows) = NumRows(W) * NumDates(W)
                /\ \A p \in Pairs(W) :
                      Cardinality({n \in DOMAIN L.rows : L.rows[n] = Expected(W, p[1], p[2])})
                      = Cardinality({q \in Pairs(W) :
                                        Expected(W, q[1], q[2]) = Expected(W, p[1], p[2])})

C4_Witness ==
    /\ Joined
    /\ \E t \in 1..3 :
          /\ NumRows(df[t]) = 2
          /\ NumDates(df[t]) >= 2
          /\ Len(long[t].rows) = 2 * NumDates(df[t])
          /\ \E n \in DOMAIN long[t].rows : long[t].rows[n][6] = NA

\* C5 (as stated): the long table is ordered row by row: the observations of
\* the first wide row in header order, then those of the second, and so on.
C5_Original ==
    Joined =>
        \A t \in 1..3 : \A p \in Pairs(df[t]) :
            long[t].rows[(p[1] - 1) * NumDates(df[t]) + p[2]] = Expected(df[t], p[1], p[2])

\* C5 (amended): the long table is ordered date column by date column: all
\* rows for the first date column in the order of the wide rows, then all
\* rows for the second date column, and so on.
C5_ColumnMajor ==
    Joined =>
        \A t \in 1..3 : \A p \in Pairs(df[t]) :
            long[t].rows[(p[2] - 1) * NumRows(df[t]) + p[1]] = Expected(df[t], p[1], p[2])

C5_Witness ==
    /\ Joined
    /\ NumRows(df[1]) = 2
    /\ NumDates(df[1]) = 2
    /\ long[1].rows[2] = Expected(df[1], 2, 1)
    /\ long[1].rows[2] # Expected(df[1], 1, 2)

\* Pivoting a long table back on (identity, date): for every key, the values
\* of the rows that carry it.
pivot_back(L) ==
    [k \in KeySet(L) |->
        LET hit == SelectSeq([n \in 1..Len(L.rows) |-> n], LAMBDA n : RowKey(L.rows[n]) = k)
        IN  [h \in 1..Len(hit) |-> L.rows[hit[h]][6]]]

RoundTrip(W, L) ==
    \A p \in Pairs(W) :
        LET e == Expected(W, p[1], p[2]) IN
        /\ RowKey(e) \in DOMAIN pivot_back(L)
        /\ pivot_back(L)[RowKey(e)] = <<e[6]>>

DistinctIdentities(W) ==
    \A i, j \in 1..NumRows(W) : i # j => IdCells(W, i) # IdCells(W, j)
DistinctDates(W) ==
    \A i, j \in 1..NumDates(W) :
        i # j => parse_date(Chars(W.cols[date_positions(W)[i]]))
                 # parse_date(Chars(W.cols[date_positions(W)[j]]))

\* C6 (as stated): for every wide table, also one with repeated identity
\* tuples, the pivot of its long table gives back every cell.
C6_Original ==
    Joined => \A t \in 1..3 : RoundTrip(df[t], long[t])

\* C6 (amended): for a wide table whose identity tuples are pairwise distinct
\* and whose date headers are pairwise distinct dates (a missing identity
\* cell counting as a value), the pivot of its long table gives back every
\* cell.
C6_RoundTrip ==
    Joined =>
        \A t \in 1..3 :
            DistinctIdentities(df[t]) /\ DistinctDates(df[t]) => RoundTrip(df[t], long[t])

C6_Witness ==
    /\ Joined
    /\ NumRows(df[1]) = 2
    /\ NumDates(df[1]) = 2
    /\ DistinctIdentities(df[1])
    /\ DistinctDates(df[1])
    /\ \E i \in 1..2 : IdCells(df[1], i)[4] = NA
    /\ RoundTrip(df[1], long[1])

\* The headers of the inputs in lower case without underscores and spaces.
NormalForm(h) ==
    CASE h = "Province_State" -> <<"p","r","o","v","i","n","c","e","s","t","a","t","e">>
      [] h = "Country_Region" -> <<"c","o","u","n","t","r","y","r","e","g","i","o","n">>
      [] h = "Lat" -> <<"l","a","t">>
      [] h = "Long" -> <<"l","o","n","g">>
      [] h = "Long_" -> <<"l","o","n","g">>
      [] h = "Province/State" -> <<"p","r","o","v","i","n","c","e","/","s","t","a","t","e">>
      [] h = "Country/Region" -> <<"c","o","u","n","t","r","y","/","r","e","g","i","o","n">>
      [] h = "Country State" -> <<"c","o","u","n","t","r","y","s","t","a","t","e">>
      [] h = "LATITUDE" -> <<"l","a","t","i","t","u","d","e">>
      [] h = "longitude" -> <<"l","o","n","g","i","t","u","d","e">>
      [] h = "Plate" -> <<"p","l","a","t","e">>
      [] h = "Notes" -> <<"n","o","t","e","s">>
      [] h = "NaN" -> <<"n","a","n">>
      [] h = "1/22/20" -> <<"1","/","2","2","/","2","0">>
      [] h = "1/23/20" -> <<"1","/","2","3","/","2","0">>
      [] h = "1/24/20" -> <<"1","/","2","4","/","2","0">>
      [] h = "1/25/20" -> <<"1","/","2","5","/","2","0">>
      [] h = "2/1/20" -> <<"2","/","1","/","2","0">>
      [] h = "1/22/21" -> <<"1","/","2","2","/","2","1">>
      [] h = "1/1/20" -> <<"1","/","1","/","2","0">>
      [] h = "1/2/20" -> <<"1","/","2","/","2","0">>
      [] h = "01/22/20" -> <<"0","1","/","2","2","/","2","0">>

MatchesProvince(h) == contains(NormalForm(h), province) \/ contains(NormalForm(h), state)
MatchesCountry(h) == contains(NormalForm(h), country) \/ contains(NormalForm(h), region)
MatchesLat(h) == NormalForm(h) = lat \/ NormalForm(h) = latitude
MatchesLong(h) == NormalForm(h) = long_ \/ NormalForm(h) = longitude
MatchesNone(h) ==
    ~MatchesProvince(h) /\ ~MatchesCountry(h) /\ ~MatchesLat(h) /\ ~MatchesLong(h)

Loaded == pc \notin {"start"} /\ df \notin {None, NoTables}
Headers(t) == {raw[t].cols[i] : i \in DOMAIN raw[t].cols}
MapsTo(t, h, name) == h \in DOMAIN col_map[t] /\ col_map[t][h] = name

\* C7: a header is mapped by the first rule it matches, in the order
\* province/state, country/region, lat/latitude, long/longitude, tested on
\* the lower-cased header without underscores and spaces.
C7_FirstRuleWins ==
    Loaded =>
        \A t \in 1..3 : \A h \in Headers(t) :
            /\ MatchesProvince(h) => MapsTo(t, h, "Province/State")
            /\ ~MatchesProvince(h) /\ MatchesCountry(h) => MapsTo(t, h, "Country/Region")
            /\ ~MatchesProvince(h) /\ ~MatchesCountry(h) /\ MatchesLat(h) => MapsTo(t, h, "Lat")
            /\ ~MatchesProvince(h) /\ ~MatchesCountry(h) /\ ~MatchesLat(h) /\ MatchesLong(h)
                  => MapsTo(t, h, "Long")

C7_Witness ==
    /\ Loaded
    /\ \E t \in 1..3 : \E h \in Headers(t) :
          /\ MatchesProvince(h)
          /\ MatchesCountry(h)
          /\ col_map[t][h] = "Province/State"
    /\ \E t \in 1..3 : \E h \in Headers(t) : h = "LATITUDE" /\ col_map[t][h] = "Lat"

\* C8: a header that matches no rule is not in the column map, keeps its
\* name through the renaming and is a date column; the date columns are the
\* columns not named Province/State, Country/Region, Lat or Long, in header
\* order, which are the headers that match no rule.
C8_UnmappedAreDateColumns ==
    Loaded =>
        \A t \in 1..3 :
            /\ \A i \in DOMAIN raw[t].cols :
                  MatchesNone(raw[t].cols[i]) =>
                      /\ raw[t].cols[i] \notin DOMAIN col_map[t]
                      /\ df[t].cols[i] = raw[t].cols[i]
                      /\ \E j \in DOMAIN get_date_columns(df[t]) :
                            get_date_columns(df[t])[j] = raw[t].cols[i]
            /\ get_date_columns(df[t]) = SelectSeq(raw[t].cols, MatchesNone)
            /\ get_date_columns(df[t])
                 = SelectSeq(df[t].cols,
                     LAMBDA c : c # "Province/State" /\ c # "Country/Region"
                                /\ c # "Lat" /\ c # "Long")
            /\ raw[t].cols = <<"Province_State", "Country_Region", "Lat", "Long", "1/22/20">>
                  => get_date_columns(df[t]) = <<"1/22/20">>

C8_Witness ==
    /\ Loaded
    /\ raw[1].cols = <<"Province_State", "Country_Region", "Plate", "Long", "1/22/20">>
    /\ get_date_columns(df[1]) = <<"Plate", "1/22/20">>
    /\ get_date_columns(df[2]) = <<"1/22/20">>

\* A pd.read_csv call of the run's load raised.
ReadFailed == cache # None /\ cache[1].error # None /\ cache[1].error[1] = "read_csv"

\* C9: the column map of a table without columns is empty, and a header
\* that no rule maps never makes the computation of the map fail.
C9_NeverRaises ==
    (pc # "start" /\ ~ReadFailed) =>
        /\ col_map # None
        /\ \A t \in 1..3 :
              /\ raw[t].cols = <<>> => DOMAIN col_map[t] = {}
              /\ DOMAIN col_map[t] = {h \in Headers(t) : ~MatchesNone(h)}

C9_Witness ==
    /\ pc = "loaded"
    /\ raw[1].cols = <<>>
    /\ DOMAIN col_map[1] = {}
    /\ "1/22/20" \in Headers(2)
    /\ "1/22/20" \notin DOMAIN col_map[2]

\* The Province/State cells of table out are those of table in with every
\* missing or blank one replaced by the sentinel.
Blank == {NA, Some("")}
FilledFrom(in, out, sentinel) ==
    /\ Len(out.rows) = Len(in.rows)
    /\ \A r \in DOMAIN out.rows : \A i \in positions(out, "Province/State") :
          /\ out.rows[r][i] \notin Blank
          /\ out.rows[r][i] = IF in.rows[r][i] \in Blank THEN Some(sentinel) ELSE in.rows[r][i]

Q3Done == pc = "done" /\ selected = "Q3"

\* The cell of row r in the j-th date column of table t, before and after
\* the Q3 cleaning.
DateCell(t, r, j) == df[t].rows[r][date_positions(df[t])[j]]
CleanedDateCell(t, r, j) == cleaned[t].rows[r][date_positions(df[t])[j]]

\* C11: after the forward fill of Q3 every date cell of every row is the
\* original value when it was present, otherwise the nearest present value
\* to its left in the same row, otherwise 0; no date cell is missing and no
\* value comes from another row.
C11_ForwardFill ==
    Q3Done =>
        \A t \in 1..3 : \A r \in DOMAIN df[t].rows : \A j \in 1..NumDates(df[t]) :
            /\ CleanedDateCell(t, r, j) # NA
            /\ DateCell(t, r, j) # NA => CleanedDateCell(t, r, j) = DateCell(t, r, j)
            /\ \A k \in 1..(j - 1) :
                  /\ DateCell(t, r, k) # NA
                  /\ \A x \in (k + 1)..j : DateCell(t, r, x) = NA
                  => CleanedDateCell(t, r, j) = DateCell(t, r, k)
            /\ (\A k \in 1..j : DateCell(t, r, k) = NA) => CleanedDateCell(t, r, j) = Some(0)

C11_Witness ==
    /\ Q3Done
    /\ Len(df[1].rows) = 2
    /\ NumDates(df[1]) = 3
    /\ [j \in 1..3 |-> DateCell(1, 1, j)] = <<Some(1), Some(2), Some(3)>>
    /\ [j \in 1..3 |-> DateCell(1, 2, j)] = <<NA, Some(5), NA>>
    /\ [j \in 1..3 |-> CleanedDateCell(1, 2, j)] = <<Some(0), Some(5), Some(5)>>

\* The cells of the Country/Region, Lat and Long columns of table out are
\* those of table in.
OtherIdentity == {"Country/Region", "Lat", "Long"}
SameOtherIdentity(in, out) ==
    /\ Len(out.rows) = Len(in.rows)
    /\ Len(out.cols) = Len(in.cols)
    /\ \A r \in DOMAIN out.rows : \A i \in DOMAIN out.cols :
          out.cols[i] \in OtherIdentity => out.rows[r][i] = in.rows[r][i]

\* C12: the Country/Region, Lat and Long cells of every row are the same
\* before and after clean_province_column, the Q3 cleaning and the Q4
\* cleaning; a missing Country/Region cell stays missing.
C12_OtherIdentityUnchanged ==
    /\ Loaded => \A t \in 1..3 : SameOtherIdentity(raw[t], df[t])
    /\ pc = "done" /\ selected \in {"Q3", "Q4"} =>
          \A t \in 1..3 : /\ SameOtherIdentity(df[t], cleaned[t])
                          /\ cleaned[t].cols = df[t].cols

C12_Witness ==
    /\ pc = "done"
    /\ selected = "Q4"
    /\ \E r \in DOMAIN raw[1].rows :
          /\ raw[1].rows[r][1] = NA
          /\ raw[1].rows[r][2] = NA
          /\ raw[1].rows[r][4] = NA
          /\ cleaned[1].rows[r][1] = Some("All Provinces")
          /\ cleaned[1].rows[r][2] = NA
          /\ cleaned[1].rows[r][4] = NA

\* A run of Q5 or Q6 has computed daily increments.
Increments == pc \in {"done", "error"} /\ selected \in {"Q5", "Q6"}

\* The date of a label of a daily series: Q5 labels by header, Q6 by date.
DateOfLabel(x) == IF selected = "Q5" THEN parse_date(Chars(x)) ELSE x

\* The cumulative total of a country at a label of its daily series: the
\* present cells of the country's rows, in the column of that header (Q5,
\* confirmed_df) or in the columns of that date (Q6, deaths_df).
RECURSIVE Total(_)
Total(cells) == IF cells = <<>> THEN 0
                ELSE (IF Head(cells) = NA THEN 0 ELSE Head(cells)[1]) + Total(Tail(cells))
CellsAt(W, c, x) ==
    LET rs == SelectSeq([r \in 1..Len(W.rows) |-> r],
                        LAMBDA r : W.rows[r][loc(W, "Country/Region")] = c)
        cs == SelectSeq(date_positions(W),
                        LAMBDA i : IF selected = "Q5" THEN W.cols[i] = x
                                   ELSE parse_date(Chars(W.cols[i])) = x)
    IN  [n \in 1..(Len(rs) * Len(cs)) |->
            W.rows[rs[((n - 1) \div Len(cs)) + 1]][cs[((n - 1) % Len(cs)) + 1]]]
Source == IF selected = "Q5" THEN df[1] ELSE df[2]
Cumul(e, i) == Total(CellsAt(Source, e.country, e.index[i]))

\* C13: the daily series d of a cumulative series v has d[first] = 0 and
\* d[i] = v[i] - v[i-1] for every later i; a negative difference is kept.
C13_ConsecutiveDifference ==
    Increments =>
        \A k \in DOMAIN daily_new :
            LET e == daily_new[k] IN
            /\ Len(e.values) = Len(e.index)
            /\ \A i \in DOMAIN e.values :
                  e.values[i] = IF i = 1 THEN Some(0)
                                ELSE Some(Cumul(e, i) - Cumul(e, i - 1))

C13_Witness ==
    /\ Increments
    /\ selected = "Q5"
    /\ raw[1].cols = StdIds \o <<"1/22/20", "1/23/20", "1/24/20", "1/25/20">>
    /\ raw[1].rows = <<FranceMain \o Revised, Germany \o Cumulative>>
    /\ daily_new = << [country |-> Some("Germany"),
                       index |-> <<"1/22/20", "1/23/20", "1/24/20", "1/25/20">>,
                       values |-> <<Some(0), Some(10), Some(0), Some(15)>>],
                      [country |-> Some("France"),
                       index |-> <<"1/22/20", "1/23/20", "1/24/20", "1/25/20">>,
                       values |-> <<Some(0), Some(0 - 2), Some(0), Some(1)>>] >>

\* C14: every daily series is computed over a sequence sorted by calendar
\* date, whatever the order of the date columns in the header: the labels
\* of the series never step back in time.
C14_SortedByDate ==
    Increments =>
        \A k \in DOMAIN daily_new :
            \A i, j \in DOMAIN daily_new[k].index :
                i < j => ~date_lt(DateOfLabel(daily_new[k].index[j]),
                                  DateOfLabel(daily_new[k].index[i]))

\* A run of Q8 has computed the monthly death rates.
Rated == pc \in {"done", "error"} /\ selected = "Q8" /\ merged_df # None

\* C15: a ratio whose denominator is 0 is exactly 0, for 0 / 0 and for a
\* numerator that is not 0; it is never NaN nor infinite.
C15_ZeroDenominator ==
    Rated =>
        \A k \in DOMAIN country_rates : \A j \in DOMAIN country_rates[k].monthly_data :
            LET month == country_rates[k].monthly_data[j] IN
            /\ month.Death_Rate # NA
            /\ month.Death_Rate[1][2] # 0
            /\ month.Confirmed = Some(0) => month.Death_Rate[1][1] = 0

----------------------------------------------------------------------------
(* Claim C18: the consumers of an empty join. *)

EmptyJoin == Joined /\ M.rows = <<>>

\* C18: when the three long tables share no location and date, the merged
\* table has no rows and the sections that consume it (Q7, Q8) run to their
\* end without raising.
C18_EmptyJoinCompletes == EmptyJoin => pc = "done"

----------------------------------------------------------------------------
(* Claim C17: a missing required column. *)

MissingRequired == pc = "stopped" /\ df \notin {None, NoTables}

\* C17: when a required column is missing after normalization, the run
\* stops before any section is rendered, and the error names the missing
\* canonical field and the raw column names of the table that lacks it.
C17_AbortNamesRawColumns ==
    MissingRequired =>
        /\ selected = ""
        /\ st_error # None
        /\ \E t \in 1..3 :
              /\ st_error[1].name = dataset_names[t]
              /\ st_error[1].col \in {required_columns[c] : c \in missing_columns(df[t])}
              /\ st_error[1].columns = raw[t].cols

----------------------------------------------------------------------------
(* Claim C16: the order of ties in a ranking. *)

Analysed ==
    /\ pc = "done"
    /\ selected = "AI Data Assistant"
    /\ analysis_results # None
    /\ analysis_results[1].error = None

\* The entries of ranking S with equal values stand in the order that the
\* grouping gave them (the sorted order of the country names).
TiesInInputOrder(S) ==
    \A i, j \in DOMAIN S :
        (i < j /\ S[i].value = S[j].value) => str_lt(Chars(S[i].key), Chars(S[j].key))

\* C16: every ranking of the analysis (the top countries by confirmed cases,
\* deaths and recoveries, and the death rates) is stable: countries with
\* equal values appear in the order of the input to the ranking.
C16_StableRanking ==
    Analysed =>
        /\ \A t \in 1..3 : TiesInInputOrder(analysis_results[1].top_countries[t])
        /\ TiesInInputOrder(analysis_results[1].death_rates)

----------------------------------------------------------------------------
(* Claim C19: failures of the files and of the remote model. *)

Asked == selected = "AI Data Assistant" /\ analysis_results # None

ErrorText == "Sorry, I encountered an error while analyzing the data"

\* C19: when a pd.read_csv call fails, load_and_prepare_datasets returns
\* (None, None, None), never some tables and some None, and the run stops;
\* when the analysis or the completion call fails,
\* get_enhanced_insights_response returns the error text or None, and the
\* page runs to its end.
C19_FailuresAreReported ==
    /\ pc # "start" =>
          /\ df = NoTables \/ \A t \in 1..3 : df[t] # None
          /\ ReadFailed => df = NoTables /\ pc = "stopped"
    /\ Asked =>
          /\ pc = "done"
          /\ ai_response = None \/ ai_response[1] \in {ErrorText, "content"}
          /\ analysis_results[1].error # None =>
                ai_response = <<ErrorText, analysis_results[1].error[1]>>

C19_Witness ==
    /\ ReadFailed
    /\ cache[1].error[2] = 2
    /\ reads = <<1, 1, 0>>
    /\ df = NoTables
    /\ pc = "stopped"

----------------------------------------------------------------------------
(* Claim C20: one read per file, one snapshot for all readers. *)

\* C20: in every step of any interleaving of the script runs of the
\* sessions, no file has been read more than once, the stored result never
\* changes once it exists, and a run that got its tables got the stored
\* ones.
C20_ReadOnceSameSnapshot ==
    [][/\ \A k \in 1..3 : reads'[k] <= 1
       /\ cache # None => cache' = cache
       /\ \A s \in Sessions :
             sessions'[s].at = "returned" =>
                 cache' # None /\ sessions'[s].df = cache'[1].value]_vars

\* One session has its tables while the other, which missed the entry
\* before it was stored, holds the lock and is about to look again.
C20_Witness ==
    /\ sessions[1].at = "returned"
    /\ sessions[2].at = "locked"
    /\ sessions[1].df # NoTables
    /\ reads = <<1, 1, 1>>

----------------------------------------------------------------------------
(* Claim C30: column normalization applied twice. *)

\* C30: standardize_dataframe_columns applied to a table that it has
\* already standardized leaves every column name as it is: the map of such
\* a table sends each canonical name to itself and has no other key.
C30_NormalizationIdempotent ==
    Loaded =>
        \A t \in 1..3 :
            /\ standardize_dataframe_columns(df[t]).cols = df[t].cols
            /\ \A h \in DOMAIN get_standard_column_map(df[t]) :
                  h \in meta_cols /\ get_standard_column_map(df[t])[h] = h

C30_Witness ==
    /\ Loaded
    /\ raw[1].cols = <<"Country State", "Country/Region", "LATITUDE", "longitude", "1/22/20">>
    /\ df[1].cols = <<"Province/State", "Country/Region", "Lat", "Long", "1/22/20">>
    /\ standardize_dataframe_columns(df[1]).cols = df[1].cols

----------------------------------------------------------------------------
(* Claim C27: the dispatch of the navigation entries. *)

\* C27: the entry selected in a run is tested by exactly one branch of the
\* dispatch, and the handler of that branch is called with as many
\* arguments as it has parameters, so that the run does not end in a
\* TypeError of the call.
C27_DispatchMatchesHandlers ==
    selected # "" =>
        /\ Cardinality({b \in DOMAIN branches : branches[b] = selected}) = 1
        /\ \E e \in DOMAIN question_list : question_list[e] = selected
        /\ ~call_raises(selected)

----------------------------------------------------------------------------
(* Claim C21: the stages and the tables they are given. *)

SectionDone == pc \in {"done", "error"} /\ selected # ""

\* C21: a stage leaves the table it is given as it was: the tables handed
\* to clean_province_column by the loader still are the standardized
\* tables after the call, and after the Q3 fill, the Q4 clean, a reshape or
\* any other section the three tables of the run still are the ones the
\* loader returned.
C21_StagesLeaveInputsUnchanged ==
    /\ argument # None =>
          \A t \in 1..3 : argument[t] = standardize_dataframe_columns(raw[t])
    /\ SectionDone => df = cache[1].value

----------------------------------------------------------------------------
(* Claim C22: the death rate of Testland, end to end. *)

\* The ratio in the cell is the number n / d.
RatioIs(cell, n, d) == cell # NA /\ cell[1][2] # 0 /\ cell[1][1] * d = n * cell[1][2]

TestlandRated == Rated /\ raw = TestlandInput

\* C22: for the three one-row tables of Testland with the date columns 1/1/20
\* and 1/2/20 holding confirmed (5, 8), deaths (2, 3) and recovered (1, 4),
\* the joined table has one row per date with the three values of that date,
\* and the death rate deaths / confirmed * 100 computed for the month of
\* 1/2/20, whose maxima are the values of that date, is 37.5.
C22_TestlandDeathRate ==
    TestlandRated =>
        /\ Len(M.rows) = 2
        /\ \E r \in DOMAIN M.rows :
              /\ M.rows[r][loc(M, "Date")] = <<2020, 1, 2>>
              /\ M.rows[r][loc(M, "Country/Region")] = Some("Testland")
              /\ M.rows[r][loc(M, "Confirmed")] = Some(8)
              /\ M.rows[r][loc(M, "Deaths")] = Some(3)
              /\ M.rows[r][loc(M, "Recovered")] = Some(4)
        /\ Len(country_rates) = 1
        /\ country_rates[1].country = Some("Testland")
        /\ Len(country_rates[1].monthly_data) = 1
        /\ country_rates[1].monthly_data[1].Date = <<2020, 1>>
        /\ country_rates[1].monthly_data[1].Confirmed = Some(8)
        /\ country_rates[1].monthly_data[1].Deaths = Some(3)
        /\ RatioIs(country_rates[1].monthly_data[1].Death_Rate, 75, 2)

C22_Witness ==
    /\ TestlandRated
    /\ Len(M.rows) = 2
    /\ RatioIs(country_rates[1].monthly_data[1].Death_Rate, 75, 2)

----------------------------------------------------------------------------
(* Claim C23: a header that is no date. *)

\* A run of Q7 or Q8 has called the reshape on the three tables.
Reshaped == pc \in {"done", "error"} /\ selected \in {"Q7", "Q8"}

\* Some header of d outside the identity columns is no calendar date.
UnparsableHeader(d) ==
    \E i \in DOMAIN get_date_columns(d) : parse_date(Chars(get_date_columns(d)[i])) = NaT

\* C23: when a header of a table outside the identity columns cannot be
\* parsed as a calendar date, the reshape of that table aborts with an error
\* and returns no long table: no long table exists after the run, and the
\* run has ended in the error.
C23_UnparsableHeaderAborts ==
    Reshaped =>
        \A t \in 1..3 : UnparsableHeader(df[t]) => long = None /\ pc = "error"

----------------------------------------------------------------------------
(* Claim C25: the monthly figures of Q7 for a country of several provinces. *)

\* A run of Q7 has computed the monthly figures.
MonthlyComputed == pc \in {"done", "error"} /\ selected = "Q7" /\ monthly_country # None

\* The rows of merged_df of a country in a month.
RowsOfMonth(name, month) ==
    SelectSeq(M.rows, LAMBDA row : /\ row[loc(M, "Country/Region")] = Some(name)
                                   /\ row[loc(M, "Month_Year")] = month)

\* The last date of the month for which merged_df has a row of the country.
LastDate(name, month) ==
    LET dates == {RowsOfMonth(name, month)[r][loc(M, "Date")] :
                    r \in DOMAIN RowsOfMonth(name, month)}
    IN  CHOOSE dt \in dates : \A other \in dates : ~date_lt(dt, other)

\* The total of a column over the rows of all provinces of the country on
\* the last date of the month.
CountryTotal(name, month, col) ==
    LET last == SelectSeq(RowsOfMonth(name, month),
                          LAMBDA row : row[loc(M, "Date")] = LastDate(name, month))
    IN  sum([r \in DOMAIN last |-> last[r][loc(M, col)]])

\* C25: the Confirmed, Deaths and Recovered figure of a country and month in
\* the monthly analysis of Q7 is the total of the country: the sum, over all
\* province rows of the country, of the cumulative count on the last date of
\* the month that the data has (for a join in which no province has two rows
\* for one date).
C25_MonthlyFigureIsCountryTotal ==
    (MonthlyComputed /\ \A a, b \in DOMAIN M.rows : a # b => key_of(M, a) # key_of(M, b)) =>
        \A i \in DOMAIN monthly_country[1] : \A v \in DOMAIN value_names :
            LET e == monthly_country[1][i] IN
            e[value_names[v]] = Some(CountryTotal(e.Country, e.Month_Year, value_names[v]))

----------------------------------------------------------------------------
(* Claim C24: the chat history keeps the last five conversations. *)

\* The list st.session_state.chat_history of a session state, empty when absent.
HistoryOf(s) == IF s.chat_history = NA THEN <<>> ELSE s.chat_history[1]

\* The conversation of the run: the text of the text area with the last
\* response; it is added when it is not in the list yet.
Conversation == <<widgets'.text_area, session_state'.last_response[1]>>
Added ==
    /\ widgets' # None /\ widgets'.text_area # ""
    /\ session_state'.last_response # NA
    /\ \A i \in DOMAIN HistoryOf(session_state) : HistoryOf(session_state)[i] # Conversation

\* C24: chat_history holds at most 5 conversations, all distinct; a run
\* leaves it as it was or adds one conversation at its end; a conversation
\* that is not in the list is added, and added to a list of five it drops
\* the oldest one, so that the list is the last 5 in the order of insertion.
C24_KeepsLastFive ==
    [][LET old == HistoryOf(session_state)
           new == HistoryOf(session_state')
       IN  /\ Len(new) <= 5
           /\ \A i, j \in DOMAIN new : i # j => new[i] # new[j]
           /\ \/ new = old
              \/ Len(old) < 5 /\ new = Append(old, new[Len(new)])
              \/ Len(old) = 5 /\ new = Append(Tail(old), new[Len(new)])
           /\ Added /\ Len(old) < 5 => new = Append(old, Conversation)
           /\ Added /\ Len(old) = 5 => new = Append(Tail(old), Conversation)]_vars

\* The sixth conversation has been added to the five and the first is gone.
C24_Witness ==
    /\ pc = "history"
    /\ widgets # None /\ widgets.text_area = " "
    /\ session_state.last_response = Some(<<"content", "reply">>)
    /\ HistoryOf(session_state) =
          Append(Tail(FiveConversations), <<" ", <<"content", "reply">>>>)

----------------------------------------------------------------------------
(* Claim C26: a conversation pairs a question with its own response. *)

\* C26: every conversation that a run adds to chat_history pairs the text of
\* the text area with the response that get_enhanced_insights_response
\* returned for that text: the run has called it with the text as the
\* question and it has returned the response of the conversation. (No
\* conversation leaves the list over these sessions, so a conversation that
\* is added was not answered in an earlier run.)
C26_PairsQuestionWithItsResponse ==
    [][Added =>
          \E k \in DOMAIN calls' :
              /\ calls'[k].question = Conversation[1]
              /\ calls'[k].response = Conversation[2]]_vars

----------------------------------------------------------------------------
(* Claim C28: the submit of a blank question. *)

\* The run is the one of a click on the submit button with a text that is
\* empty or of whitespace only.
BlankSubmit ==
    /\ widgets' # None
    /\ widgets'.button = 1
    /\ str_strip(Chars(widgets'.text_area)) = <<>>

\* C28: the submit of a question that is empty or of whitespace only makes
\* no call, shows the warning "Please enter a question ...", and leaves
\* last_response and the conversations of chat_history as they were.
C28_BlankSubmitChangesNothing ==
    [][BlankSubmit =>
          /\ calls' = <<>>
          /\ st_warning' = <<"Please enter a question to get real-time analysis.">>
          /\ session_state'.last_response = session_state.last_response
          /\ HistoryOf(session_state') = HistoryOf(session_state)]_vars

----------------------------------------------------------------------------
(* Claim C29: one analysis per click on a quick button. *)

\* The calls of the run made with the text of a quick button as the question.
QuickCalls ==
    {k \in DOMAIN calls' : \E b \in DOMAIN quick_questions :
                              calls'[k].question = quick_questions[b]}

\* C29: the run of a click on a quick button calls
\* get_enhanced_insights_response once, with the question of that button,
\* and removes quick_question from the session state, whether the call
\* returned a response or nothing; a run without such a click makes no call
\* for a quick question, and no state between two runs holds a
\* quick_question.
C29_OneAnalysisPerQuickClick ==
    [][/\ session_state'.quick_question = NA
       /\ widgets' # None =>
             IF widgets'.button \in 2..4
             THEN /\ Len(calls') = 1
                  /\ calls'[1].question = quick_questions[widgets'.button - 1]
             ELSE QuickCalls = {}]_vars

\* A click on a quick button whose call returned nothing has been handled.
C29_Witness ==
    /\ pc = "done"
    /\ widgets # None /\ widgets.button = 2
    /\ Len(calls) = 1
    /\ calls[1].question = quick_questions[1]
    /\ calls[1].response = None
    /\ session_state.quick_question = NA

=============================================================================
